---- MODULE Spec2Model ----
(***************************************************************************)
(* win-backup-checker: the concurrent backup-set discovery and validation  *)
(* engine (ScanFileBackupDir and everything it calls).                     *)
(*                                                                         *)
(* Texts (paths, file names, messages) are TLA+ strings; TLC evaluates     *)
(* Len, SubSeq and \o on them, so parsing and formatting are computed      *)
(* character by character, as the Go library does.                         *)
(* Wall-clock values (CheckedAt, ValidationTime) are left out of the       *)
(* records: no modelled decision reads them.                               *)
(***************************************************************************)
EXTENDS Integers, Sequences, FiniteSets, TLC

(***************************************************************************)
(* Text primitives of the Go standard library used by the engine.          *)
(***************************************************************************)

\* s[i] as a one-character string.
CharAt(s, i) == SubSeq(s, i, i)

\* s[i:] (1-based i).
From(s, i) == SubSeq(s, i, Len(s))

\* The ASCII characters the model's texts are made of, in code order.
Ascii == " ()+-./0123456789ABCDEFGHIJKLMNOPQRSTUVWXYZabcdefghijklmnopqrstuvwxyz"

\* Position of a character in Ascii: its rank in byte order.
Code(c) == CHOOSE k \in 1..Len(Ascii) : CharAt(Ascii, k) = c

Digits == {"0", "1", "2", "3", "4", "5", "6", "7", "8", "9"}

DigitVal(c) == Code(c) - Code("0")

IsUpper(c) == Code(c) >= Code("A") /\ Code(c) <= Code("Z")

LowerChar(c) == IF IsUpper(c) THEN CharAt(Ascii, Code(c) + 26) ELSE c

\* strings.ToLower
RECURSIVE ToLower(_)
ToLower(s) ==
    IF Len(s) = 0 THEN ""
    ELSE LowerChar(CharAt(s, 1)) \o ToLower(From(s, 2))

\* Index of the last occurrence of character c in s, 0 when absent.
RECURSIVE LastIndex(_, _)
LastIndex(s, c) ==
    IF Len(s) = 0 THEN 0
    ELSE IF CharAt(s, Len(s)) = c THEN Len(s)
    ELSE LastIndex(SubSeq(s, 1, Len(s) - 1), c)

\* filepath.Base on a clean, non-empty path: the last path element.
Base(path) == From(path, LastIndex(path, "/") + 1)

\* filepath.Dir on a clean path holding a separator.
Dir(path) == SubSeq(path, 1, LastIndex(path, "/") - 1)

\* filepath.Ext: the suffix starting at the last dot of the last element.
Ext(path) ==
    LET b == Base(path)
        d == LastIndex(b, ".")
    IN  IF d = 0 THEN "" ELSE From(b, d)

\* strings.TrimSuffix
TrimSuffix(s, suffix) ==
    IF Len(suffix) <= Len(s) /\ From(s, Len(s) - Len(suffix) + 1) = suffix
    THEN SubSeq(s, 1, Len(s) - Len(suffix))
    ELSE s

\* filepath.Join of two clean elements.
Join(dir, name) == dir \o "/" \o name

\* strings.Join
RECURSIVE StringsJoin(_, _)
StringsJoin(elems, sep) ==
    IF Len(elems) = 0 THEN ""
    ELSE IF Len(elems) = 1 THEN elems[1]
    ELSE elems[1] \o sep \o StringsJoin(Tail(elems), sep)

\* Byte-wise lexicographic s < t (Go's string comparison).
RECURSIVE StrLess(_, _)
StrLess(s, t) ==
    IF Len(t) = 0 THEN FALSE
    ELSE IF Len(s) = 0 THEN TRUE
    ELSE IF CharAt(s, 1) = CharAt(t, 1) THEN StrLess(From(s, 2), From(t, 2))
    ELSE Code(CharAt(s, 1)) < Code(CharAt(t, 1))

\* sort.Strings: the ascending arrangement of a list of distinct strings.
SortStrings(list) ==
    LET S == {list[i] : i \in 1..Len(list)}
    IN  CHOOSE out \in [1..Cardinality(S) -> S] :
            \A i, j \in 1..Cardinality(S) : i < j => StrLess(out[i], out[j])

\* fmt's %d rendering of an int.
Sprintd(n) == ToString(n)

(***************************************************************************)
(* fmt.Sscanf for formats made of literals, spaces and %d verbs.           *)
(* The result is [err, num]: err as Sscanf's error being non-nil, num the  *)
(* value stored by the last %d.                                            *)
(***************************************************************************)

\* First index >= i of s that holds no space (Len(s) + 1 at the end).
RECURSIVE SkipSpaces(_, _)
SkipSpaces(s, i) ==
    IF i <= Len(s) /\ CharAt(s, i) = " " THEN SkipSpaces(s, i + 1) ELSE i

\* First index >= i of s that holds no digit.
RECURSIVE SkipDigits(_, _)
SkipDigits(s, i) ==
    IF i <= Len(s) /\ CharAt(s, i) \in Digits THEN SkipDigits(s, i + 1) ELSE i

\* strconv.ParseInt of a run of decimal digits.
RECURSIVE ParseDigits(_)
ParseDigits(tok) ==
    IF Len(tok) = 0 THEN 0
    ELSE 10 * ParseDigits(SubSeq(tok, 1, Len(tok) - 1)) + DigitVal(CharAt(tok, Len(tok)))

\* scanInt for verb d at input position i: [err, num, next].
ScanInt(s, i) ==
    LET a  == SkipSpaces(s, i)
        sg == IF a <= Len(s) /\ CharAt(s, a) \in {"+", "-"} THEN a + 1 ELSE a
        e  == SkipDigits(s, sg)
    IN  IF a > Len(s) \/ e = sg
        THEN [err |-> TRUE, num |-> 0, next |-> a]
        ELSE [err |-> FALSE,
              num |-> IF sg > a /\ CharAt(s, a) = "-"
                      THEN 0 - ParseDigits(SubSeq(s, sg, e - 1))
                      ELSE ParseDigits(SubSeq(s, sg, e - 1)),
              next |-> e]

\* doScanf with one operand: s from position i against format f from position j;
\* done tells whether the operand has been stored, num its value.
RECURSIVE DoScanf(_, _, _, _, _, _)
DoScanf(s, i, f, j, done, num) ==
    IF j > Len(f) THEN [err |-> ~done, num |-> num]
    ELSE IF CharAt(f, j) = " " THEN
        \* a run of spaces in the format consumes one or more spaces, or finds the end
        IF i <= Len(s) /\ CharAt(s, i) # " "
        THEN [err |-> TRUE, num |-> num]
        ELSE DoScanf(s, SkipSpaces(s, i), f, SkipSpaces(f, j), done, num)
    ELSE IF CharAt(f, j) = "%" THEN
        LET r == ScanInt(s, i)
        IN  IF done \/ r.err THEN [err |-> TRUE, num |-> num]
            ELSE DoScanf(s, r.next, f, j + 2, TRUE, r.num)
    ELSE
        \* a literal must be read and must match
        IF i > Len(s) \/ CharAt(s, i) # CharAt(f, j)
        THEN [err |-> TRUE, num |-> num]
        ELSE DoScanf(s, i + 1, f, j + 1, done, num)

Sscanf(s, format) == DoScanf(s, 1, format, 1, FALSE, 0)

(***************************************************************************)
(* Data model (internal/backup/config.go).                                 *)
(***************************************************************************)

SeverityInfo == 0
SeverityWarning == 1
SeverityError == 2
SeverityCritical == 3

NewValidationIssue(severity, message, path, suggestion) ==
    [Severity |-> severity, Message |-> message, Path |-> path, Suggestion |-> suggestion]

\* A nil *time.Time.
NilTime == -1

\* The zero value of ValidationStats.
ZeroStats ==
    [TotalFiles |-> 0, ValidatedFiles |-> 0, CorruptFiles |-> 0, TotalSize |-> 0,
     CatalogFiles |-> 0, BackupFiles |-> 0, OldestBackupTime |-> NilTime,
     NewestBackupTime |-> NilTime, StructuralChecks |-> 0, ContentChecks |-> 0]

\* The zero value of BackupReport: what make([]BackupReport, n) fills every slot with.
ZeroReport ==
    [BackupDir |-> "", Valid |-> FALSE, Issues |-> <<>>, ValidationStats |-> ZeroStats]

\* The zero time.Time; every real file time is after it.
ZeroTime == 0

\* time.Time.After
After(t, u) == t > u

(***************************************************************************)
(* The file system the scan reads.  A tree is a record                     *)
(*   [marker, rootReadable, machines]                                      *)
(* machines: the entries of the root in os.ReadDir order (sorted by name), *)
(*   each [name, isDir, readable, sets];                                   *)
(* sets: the entries of a machine directory, each [name, isDir, dirs,      *)
(*   files]; dirs the sub-directories of the set, files its regular files  *)
(*   in filepath.Walk order, each                                          *)
(*   [rel, size, mtime, walkErr, statOK, openOK, readOK, zipOK, entries].  *)
(* entries are the members of a zip archive, each [size, openOK, read].    *)
(***************************************************************************)

Root == "R"

\* Every regular file below a set directory, with its full path.
FilesOfSet(setPath, set) ==
    {[path |-> Join(setPath, set.files[k].rel), node |-> set.files[k]] :
        k \in 1..Len(set.files)}

SetsOfTree(tree) ==
    UNION {{[path |-> Join(Join(Root, tree.machines[m].name), tree.machines[m].sets[k].name),
             set |-> tree.machines[m].sets[k]] :
                k \in 1..Len(tree.machines[m].sets)} :
           m \in 1..Len(tree.machines)}

\* The file a path names.
NodeAt(tree, path) ==
    LET all == UNION {FilesOfSet(s.path, s.set) : s \in SetsOfTree(tree)}
    IN  (CHOOSE f \in all : f.path = path).node

\* dirExists: os.Stat succeeds and names a directory.
dirExists(tree, path) ==
    \E s \in SetsOfTree(tree) :
        /\ s.set.isDir
        /\ \/ path = s.path
           \/ \E d \in s.set.dirs : path = Join(s.path, d)

\* fileExists(root/MediaID.bin): os.Stat succeeds and names no directory.
fileExists(tree) == tree.marker.exists /\ ~tree.marker.isDir

(***************************************************************************)
(* Discovery.                                                              *)
(***************************************************************************)

\* The callback of filepath.Walk in gatherBackupSetInfo, applied to one file.
GatherFile(info, path, node) ==
    IF node.walkErr THEN info
    ELSE
        LET ext == ToLower(Ext(path))
            counted == [info EXCEPT !.FileCount = @ + 1,
                                    !.Size = @ + node.size,
                                    !.ModTime = IF After(node.mtime, @) THEN node.mtime ELSE @]
        IN  IF ext \in {".wbcat", ".cat"}
            THEN IF Base(Dir(path)) = "Catalogs"
                 THEN [counted EXCEPT !.CatalogFiles = Append(@, path)]
                 ELSE counted
            ELSE IF ext = ".zip"
            THEN [counted EXCEPT !.BackupFiles = Append(@, path)]
            ELSE counted

RECURSIVE GatherWalk(_, _, _, _)
GatherWalk(info, setPath, files, k) ==
    IF k > Len(files) THEN info
    ELSE GatherWalk(GatherFile(info, Join(setPath, files[k].rel), files[k]),
                    setPath, files, k + 1)

\* gatherBackupSetInfo: one walk of the set's subtree, then both lists sorted.
\* The callback returns nil for every entry, so the walk never reports an error.
gatherBackupSetInfo(setPath, set) ==
    LET walked == GatherWalk([Path |-> setPath, Size |-> 0, FileCount |-> 0,
                              ModTime |-> ZeroTime, CatalogFiles |-> <<>>,
                              BackupFiles |-> <<>>],
                             setPath, set.files, 1)
    IN  [walked EXCEPT !.BackupFiles = SortStrings(@), !.CatalogFiles = SortStrings(@)]

\* The inner loop of discoverBackupSets over the entries of one machine directory.
RECURSIVE DiscoverSets(_, _, _)
DiscoverSets(machineDir, sets, k) ==
    IF k > Len(sets) THEN <<>>
    ELSE IF ~sets[k].isDir \/ Ext(sets[k].name) # ""
    THEN DiscoverSets(machineDir, sets, k + 1)
    ELSE <<gatherBackupSetInfo(Join(machineDir, sets[k].name), sets[k])>>
            \o DiscoverSets(machineDir, sets, k + 1)

\* The outer loop of discoverBackupSets over the entries of the root.
RECURSIVE DiscoverMachines(_, _)
DiscoverMachines(machines, m) ==
    IF m > Len(machines) THEN <<>>
    ELSE IF ~machines[m].isDir \/ ~machines[m].readable
    THEN DiscoverMachines(machines, m + 1)
    ELSE DiscoverSets(Join(Root, machines[m].name), machines[m].sets, 1)
            \o DiscoverMachines(machines, m + 1)

\* The comparison handed to sort.Slice: newest first.
SetLess(x, y) == After(x.ModTime, y.ModTime)

(***************************************************************************)
(* sort.Slice as the Go toolchain the project requires (1.19 or later)     *)
(* runs it: pdqsort_func over the half-open index range [a, b), indices    *)
(* counted from 0 as in Go.  Ranges of at most maxInsertion elements are   *)
(* insertion-sorted; a longer range is partitioned around a pivot first.   *)
(* The model covers ranges of at most MaxSortLen elements, for which both  *)
(* sides of the first partition are at most maxInsertion long.             *)
(***************************************************************************)

maxInsertion == 12

MaxSortLen == 13

At(d, k) == d[k + 1]

Swap(d, i, j) == [d EXCEPT ![i + 1] = d[j + 1], ![j + 1] = d[i + 1]]

Less(d, i, j) == SetLess(At(d, i), At(d, j))

RECURSIVE InsertionInner(_, _, _)
InsertionInner(d, a, j) ==
    IF j > a /\ Less(d, j, j - 1) THEN InsertionInner(Swap(d, j, j - 1), a, j - 1) ELSE d

RECURSIVE InsertionOuter(_, _, _, _)
InsertionOuter(d, a, b, i) ==
    IF i >= b THEN d ELSE InsertionOuter(InsertionInner(d, a, i), a, b, i + 1)

insertionSort_func(d, a, b) == InsertionOuter(d, a, b, a + 1)

\* order2_func: <<x, y, swaps>> with data[x] <= data[y].
order2_func(d, x, y, swaps) ==
    IF Less(d, y, x) THEN <<y, x, swaps + 1>> ELSE <<x, y, swaps>>

\* median_func: <<index of the median of three, swaps>>.
median_func(d, x, y, z, swaps) ==
    LET s1 == order2_func(d, x, y, swaps)
        s2 == order2_func(d, s1[2], z, s1[3])
        s3 == order2_func(d, s1[1], s2[1], s2[3])
    IN  <<s3[2], s3[3]>>

\* choosePivot_func for ranges shorter than 50: <<pivot, swaps>>; no swap at all
\* is the hint that the range may already be in order.
choosePivot_func(d, a, b) ==
    LET l == b - a
        q == l \div 4
    IN  IF l >= 8 THEN median_func(d, a + q, a + q * 2, a + q * 3, 0)
        ELSE <<a + q * 2, 0>>

\* partialInsertionSort_func on a range shorter than 50: it moves nothing and
\* reports whether the range is already in order.
partialInsertionSort_func(d, a, b) ==
    \A i \in (a + 1)..(b - 1) : ~Less(d, i, i - 1)

RECURSIVE ScanUp(_, _, _, _)
ScanUp(d, a, i, j) == IF i <= j /\ Less(d, i, a) THEN ScanUp(d, a, i + 1, j) ELSE i

RECURSIVE ScanDown(_, _, _, _)
ScanDown(d, a, i, j) == IF i <= j /\ ~Less(d, j, a) THEN ScanDown(d, a, i, j - 1) ELSE j

RECURSIVE PartitionLoop(_, _, _, _)
PartitionLoop(d, a, i, j) ==
    LET i2 == ScanUp(d, a, i, j)
        j2 == ScanDown(d, a, i2, j)
    IN  IF i2 > j2 THEN [data |-> Swap(d, j2, a), mid |-> j2]
        ELSE PartitionLoop(Swap(d, i2, j2), a, i2 + 1, j2 - 1)

\* partition_func: the pivot goes to the front, both ends are scanned inwards and
\* misplaced elements exchanged, then the pivot is put at its place, mid.
partition_func(d, a, b, pivot) == PartitionLoop(Swap(d, a, pivot), a, a + 1, b - 1)

pdqsort_func(d, a, b) ==
    IF b - a <= maxInsertion THEN insertionSort_func(d, a, b)
    ELSE
        LET cp == choosePivot_func(d, a, b)
        IN  IF cp[2] = 0 /\ partialInsertionSort_func(d, a, b) THEN d
            ELSE
                LET p == partition_func(d, a, b, cp[1])
                IN  insertionSort_func(insertionSort_func(p.data, a, p.mid), p.mid + 1, b)

\* sort.Slice(backupSets, less)
SortSlice(d) == pdqsort_func(d, 0, Len(d))

\* discoverBackupSets: [err, sets]; err as the returned error being non-nil.
discoverBackupSets(tree) ==
    IF ~tree.rootReadable THEN [err |-> TRUE, sets |-> <<>>]
    ELSE [err |-> FALSE, sets |-> SortSlice(DiscoverMachines(tree.machines, 1))]

(***************************************************************************)
(* Validation rules.  An error value is [err, msg]: err as the Go error    *)
(* being non-nil, msg its text (the wrapped library error is left out).    *)
(***************************************************************************)

NoError == [err |-> FALSE, msg |-> ""]

Errorf(msg) == [err |-> TRUE, msg |-> msg]

minInt(a, b) == IF a < b THEN a ELSE b

maxInt(a, b) == IF a > b THEN a ELSE b

\* The sampling loop of validateZipFile over the first testCount members.
RECURSIVE ZipSample(_, _, _)
ZipSample(entries, i, testCount) ==
    IF i > testCount THEN NoError
    ELSE IF ~entries[i].openOK THEN Errorf("cannot open file in zip")
    ELSE IF entries[i].read \notin {"nil", "EOF", "ErrUnexpectedEOF"}
    THEN Errorf("cannot read file in zip")
    ELSE ZipSample(entries, i + 1, testCount)

\* Mutant: the closing check for a single empty member is left out.
validateZipFileNoEmptyCheck(node) ==
    IF ~(node.openOK /\ node.zipOK) THEN Errorf("cannot open zip")
    ELSE IF Len(node.entries) = 0 THEN Errorf("zip file is empty")
    ELSE ZipSample(node.entries, 1, minInt(Len(node.entries), 3))

validateZipFile(node) ==
    IF ~(node.openOK /\ node.zipOK) THEN Errorf("cannot open zip")
    ELSE IF Len(node.entries) = 0 THEN Errorf("zip file is empty")
    ELSE
        LET sampled == ZipSample(node.entries, 1, minInt(Len(node.entries), 3))
        IN  IF sampled.err THEN sampled
            ELSE IF Len(node.entries) = 1 /\ node.entries[1].size = 0
            THEN Errorf("zip contains only empty file")
            ELSE NoError

validateCatalogFile(node) ==
    IF ~node.statOK THEN Errorf("cannot stat catalog file")
    ELSE IF node.size = 0 THEN Errorf("catalog file is empty")
    ELSE IF ~node.openOK THEN Errorf("cannot open catalog file")
    ELSE IF ~node.readOK THEN Errorf("cannot read catalog file")
    ELSE NoError

validateMediaID(marker) ==
    IF ~marker.statOK THEN Errorf("cannot stat MediaID.bin")
    ELSE IF marker.size = 0 THEN Errorf("MediaID.bin is empty")
    ELSE IF marker.size > 1024 * 1024
    THEN Errorf("MediaID.bin is unusually large (" \o Sprintd(marker.size) \o " bytes)")
    ELSE IF ~marker.openOK THEN Errorf("cannot open MediaID.bin")
    ELSE IF ~marker.readOK THEN Errorf("cannot read MediaID.bin")
    ELSE NoError

\* Mutant: the rule returns at the first Error it finds.
validateBackupStructureShortCircuit(tree, setInfo) ==
    LET catalogDir == Join(setInfo.Path, "Catalogs")
    IN  IF ~dirExists(tree, catalogDir)
        THEN <<NewValidationIssue(SeverityError, "missing Catalogs folder", catalogDir,
                 "backup set should contain a Catalogs folder with .wbcat files")>>
        ELSE IF Len(setInfo.CatalogFiles) = 0
        THEN <<NewValidationIssue(SeverityError,
                 "no catalog files found in Catalogs folder", catalogDir,
                 "ensure the backup completed successfully and catalog files exist")>>
        ELSE IF Len(setInfo.BackupFiles) = 0
        THEN <<NewValidationIssue(SeverityError, "no backup files (.zip) found",
                 setInfo.Path,
                 "backup set should contain .zip files with the actual backup data")>>
        ELSE (IF setInfo.FileCount < 2
              THEN <<NewValidationIssue(SeverityWarning,
                       "backup set contains only " \o Sprintd(setInfo.FileCount) \o " files",
                       setInfo.Path,
                       "typical backup sets should contain multiple files (catalogs + backup files)")>>
              ELSE <<>>)
             \o
             (IF setInfo.Size < 1024
              THEN <<NewValidationIssue(SeverityWarning,
                       "backup set is very small (" \o Sprintd(setInfo.Size) \o " bytes)",
                       setInfo.Path, "backup might be incomplete or corrupted")>>
              ELSE <<>>)

\* Mutant: the two catalog checks are independent, so a set without a Catalogs
\* folder gets both catalog Errors.
validateBackupStructureBothCatalogErrors(tree, setInfo) ==
    LET catalogDir == Join(setInfo.Path, "Catalogs")
    IN  (IF ~dirExists(tree, catalogDir)
         THEN <<NewValidationIssue(SeverityError, "missing Catalogs folder", catalogDir,
                  "backup set should contain a Catalogs folder with .wbcat files")>>
         ELSE <<>>)
        \o
        (IF Len(setInfo.CatalogFiles) = 0
         THEN <<NewValidationIssue(SeverityError,
                  "no catalog files found in Catalogs folder", catalogDir,
                  "ensure the backup completed successfully and catalog files exist")>>
         ELSE <<>>)
        \o
        (IF Len(setInfo.BackupFiles) = 0
         THEN <<NewValidationIssue(SeverityError, "no backup files (.zip) found",
                  setInfo.Path,
                  "backup set should contain .zip files with the actual backup data")>>
         ELSE <<>>)
        \o
        (IF setInfo.FileCount < 2
         THEN <<NewValidationIssue(SeverityWarning,
                  "backup set contains only " \o Sprintd(setInfo.FileCount) \o " files",
                  setInfo.Path,
                  "typical backup sets should contain multiple files (catalogs + backup files)")>>
         ELSE <<>>)
        \o
        (IF setInfo.Size < 1024
         THEN <<NewValidationIssue(SeverityWarning,
                  "backup set is very small (" \o Sprintd(setInfo.Size) \o " bytes)",
                  setInfo.Path, "backup might be incomplete or corrupted")>>
         ELSE <<>>)

validateBackupStructure(tree, setInfo) ==
    LET catalogDir == Join(setInfo.Path, "Catalogs")
        catalogs ==
            IF ~dirExists(tree, catalogDir)
            THEN <<NewValidationIssue(SeverityError, "missing Catalogs folder", catalogDir,
                     "backup set should contain a Catalogs folder with .wbcat files")>>
            ELSE IF Len(setInfo.CatalogFiles) = 0
            THEN <<NewValidationIssue(SeverityError,
                     "no catalog files found in Catalogs folder", catalogDir,
                     "ensure the backup completed successfully and catalog files exist")>>
            ELSE <<>>
        backups ==
            IF Len(setInfo.BackupFiles) = 0
            THEN <<NewValidationIssue(SeverityError, "no backup files (.zip) found",
                     setInfo.Path,
                     "backup set should contain .zip files with the actual backup data")>>
            ELSE <<>>
        count ==
            IF setInfo.FileCount < 2
            THEN <<NewValidationIssue(SeverityWarning,
                     "backup set contains only " \o Sprintd(setInfo.FileCount) \o " files",
                     setInfo.Path,
                     "typical backup sets should contain multiple files (catalogs + backup files)")>>
            ELSE <<>>
        size ==
            IF setInfo.Size < 1024
            THEN <<NewValidationIssue(SeverityWarning,
                     "backup set is very small (" \o Sprintd(setInfo.Size) \o " bytes)",
                     setInfo.Path, "backup might be incomplete or corrupted")>>
            ELSE <<>>
    IN  catalogs \o backups \o count \o size

\* One round of the extraction loop of findMissingBackupFiles: acc is
\* [numbers, minNum, maxNum].
ExtractNumber(acc, path) ==
    LET base == Base(path)
        baseLower == ToLower(TrimSuffix(base, Ext(base)))
        p1 == Sscanf(baseLower, "backup files %d")
        p2 == Sscanf(baseLower, "backup files (%d)")
        p3 == Sscanf(baseLower, "backupfiles%d")
        Record(num) ==
            [numbers |-> acc.numbers \cup {num},
             minNum |-> IF acc.minNum = -1 \/ num < acc.minNum THEN num ELSE acc.minNum,
             maxNum |-> IF num > acc.maxNum THEN num ELSE acc.maxNum]
    IN  IF ~p1.err THEN Record(p1.num)
        ELSE IF ~p2.err THEN Record(p2.num)
        ELSE IF ~p3.err THEN Record(p3.num)
        ELSE acc

RECURSIVE ExtractNumbers(_, _, _)
ExtractNumbers(acc, backupFiles, k) ==
    IF k > Len(backupFiles) THEN acc
    ELSE ExtractNumbers(ExtractNumber(acc, backupFiles[k]), backupFiles, k + 1)

\* Mutant: the missing index is named with a capital F.
MissingNameCapitalF(i) == "Backup Files " \o Sprintd(i) \o ".zip"

\* The name findMissingBackupFiles gives a missing index.
MissingName(i) == "Backup files " \o Sprintd(i) \o ".zip"

\* The closing loop of findMissingBackupFiles, from i to maxNum.
RECURSIVE MissingFrom(_, _, _)
MissingFrom(numbers, i, maxNum) ==
    IF i > maxNum THEN <<>>
    ELSE IF i \notin numbers THEN <<MissingName(i)>> \o MissingFrom(numbers, i + 1, maxNum)
    ELSE MissingFrom(numbers, i + 1, maxNum)

findMissingBackupFiles(backupFiles) ==
    IF Len(backupFiles) = 0 THEN <<>>
    ELSE
        LET acc == ExtractNumbers([numbers |-> {}, minNum |-> -1, maxNum |-> -1],
                                  backupFiles, 1)
        IN  IF acc.minNum = -1 THEN <<>>
            ELSE MissingFrom(acc.numbers, acc.minNum, acc.maxNum)

validateBackupCompleteness(setInfo) ==
    IF Len(setInfo.BackupFiles) > 0
    THEN LET missing == findMissingBackupFiles(setInfo.BackupFiles)
         IN  IF Len(missing) > 0
             THEN <<NewValidationIssue(SeverityWarning,
                      "missing backup files in sequence: " \o StringsJoin(missing, ", "),
                      setInfo.Path,
                      "some backup data may be incomplete or files were deleted")>>
             ELSE <<>>
    ELSE <<>>

\* Mutant: a failed catalog file is reported as an Error, like an archive.
ContentFileCatalogError(acc, tree, path, kind) ==
    LET res == IF kind = "zip" THEN validateZipFile(NodeAt(tree, path))
               ELSE validateCatalogFile(NodeAt(tree, path))
        issue == IF kind = "zip"
                 THEN NewValidationIssue(SeverityError,
                        "corrupted backup file: " \o res.msg, path,
                        "backup file may need to be restored from another source")
                 ELSE NewValidationIssue(SeverityError,
                        "catalog file issue: " \o res.msg, path,
                        "catalog may be corrupted but backup data might still be recoverable")
        counted == [acc.stats EXCEPT !.ValidatedFiles = @ + 1]
    IN  IF res.err
        THEN [issues |-> Append(acc.issues, issue),
              stats |-> [counted EXCEPT !.CorruptFiles = @ + 1]]
        ELSE [issues |-> acc.issues,
              stats |-> [counted EXCEPT !.ContentChecks = @ + 1]]

\* Mutant: a failed archive is reported as a Warning, like a catalog.
ContentFileZipWarning(acc, tree, path, kind) ==
    LET res == IF kind = "zip" THEN validateZipFile(NodeAt(tree, path))
               ELSE validateCatalogFile(NodeAt(tree, path))
        issue == IF kind = "zip"
                 THEN NewValidationIssue(SeverityWarning,
                        "corrupted backup file: " \o res.msg, path,
                        "backup file may need to be restored from another source")
                 ELSE NewValidationIssue(SeverityWarning,
                        "catalog file issue: " \o res.msg, path,
                        "catalog may be corrupted but backup data might still be recoverable")
        counted == [acc.stats EXCEPT !.ValidatedFiles = @ + 1]
    IN  IF res.err
        THEN [issues |-> Append(acc.issues, issue),
              stats |-> [counted EXCEPT !.CorruptFiles = @ + 1]]
        ELSE [issues |-> acc.issues,
              stats |-> [counted EXCEPT !.ContentChecks = @ + 1]]

\* Mutant: a file counts as validated only when its check passes.
ContentFileFailedNotValidated(acc, tree, path, kind) ==
    LET res == IF kind = "zip" THEN validateZipFile(NodeAt(tree, path))
               ELSE validateCatalogFile(NodeAt(tree, path))
        issue == IF kind = "zip"
                 THEN NewValidationIssue(SeverityError,
                        "corrupted backup file: " \o res.msg, path,
                        "backup file may need to be restored from another source")
                 ELSE NewValidationIssue(SeverityWarning,
                        "catalog file issue: " \o res.msg, path,
                        "catalog may be corrupted but backup data might still be recoverable")
    IN  IF res.err
        THEN [issues |-> Append(acc.issues, issue),
              stats |-> [acc.stats EXCEPT !.CorruptFiles = @ + 1]]
        ELSE [issues |-> acc.issues,
              stats |-> [acc.stats EXCEPT !.ValidatedFiles = @ + 1, !.ContentChecks = @ + 1]]

\* One round of a loop of validateBackupContent, past its cancellation check:
\* acc is [issues, stats], kind tells the loop ("zip" or "catalog").
ContentFile(acc, tree, path, kind) ==
    LET res == IF kind = "zip" THEN validateZipFile(NodeAt(tree, path))
               ELSE validateCatalogFile(NodeAt(tree, path))
        issue == IF kind = "zip"
                 THEN NewValidationIssue(SeverityError,
                        "corrupted backup file: " \o res.msg, path,
                        "backup file may need to be restored from another source")
                 ELSE NewValidationIssue(SeverityWarning,
                        "catalog file issue: " \o res.msg, path,
                        "catalog may be corrupted but backup data might still be recoverable")
        counted == [acc.stats EXCEPT !.ValidatedFiles = @ + 1]
    IN  IF res.err
        THEN [issues |-> Append(acc.issues, issue),
              stats |-> [counted EXCEPT !.CorruptFiles = @ + 1]]
        ELSE [issues |-> acc.issues,
              stats |-> [counted EXCEPT !.ContentChecks = @ + 1]]

\* Mutant: the catalog loop runs before the zip loop.
ContentFilesCatalogsFirst(setInfo) ==
    [k \in 1..(Len(setInfo.BackupFiles) + Len(setInfo.CatalogFiles)) |->
        IF k <= Len(setInfo.CatalogFiles)
        THEN [path |-> setInfo.CatalogFiles[k], kind |-> "catalog"]
        ELSE [path |-> setInfo.BackupFiles[k - Len(setInfo.CatalogFiles)], kind |-> "zip"]]

\* The files validateBackupContent examines, in its order: the zip loop, then the
\* catalog loop.
ContentFiles(setInfo) ==
    [k \in 1..(Len(setInfo.BackupFiles) + Len(setInfo.CatalogFiles)) |->
        IF k <= Len(setInfo.BackupFiles)
        THEN [path |-> setInfo.BackupFiles[k], kind |-> "zip"]
        ELSE [path |-> setInfo.CatalogFiles[k - Len(setInfo.BackupFiles)], kind |-> "catalog"]]

RECURSIVE ContentLoop(_, _, _, _, _)
ContentLoop(acc, tree, files, k, n) ==
    IF k > n THEN acc
    ELSE ContentLoop(ContentFile(acc, tree, files[k].path, files[k].kind), tree, files, k + 1, n)

\* validateBackupContent returning after n files: n is the number of files in
\* front of which the cancellation check found the signal not fired (all of them
\* when the check never finds it fired).
validateBackupContent(tree, setInfo, n) ==
    ContentLoop([issues |-> <<>>, stats |-> ZeroStats], tree, ContentFiles(setInfo), 1, n)

Hour == 3600

\* Mutant: the old-backup threshold is 90 hours, the factor 24 left out.
validateBackupAgeNinetyHours(setInfo, now) ==
    IF setInfo.ModTime = ZeroTime THEN <<>>
    ELSE
        LET age == now - setInfo.ModTime
        IN  (IF age < Hour
             THEN <<NewValidationIssue(SeverityInfo, "backup is very recent", setInfo.Path,
                      "backup might still be in progress")>>
             ELSE <<>>)
            \o
            (IF age > 90 * Hour
             THEN <<NewValidationIssue(SeverityWarning, "backup is quite old", setInfo.Path,
                      "consider creating more recent backups")>>
             ELSE <<>>)

\* Mutant: both thresholds are inclusive.
validateBackupAgeInclusive(setInfo, now) ==
    IF setInfo.ModTime = ZeroTime THEN <<>>
    ELSE
        LET age == now - setInfo.ModTime
        IN  (IF age <= Hour
             THEN <<NewValidationIssue(SeverityInfo, "backup is very recent", setInfo.Path,
                      "backup might still be in progress")>>
             ELSE <<>>)
            \o
            (IF age >= 90 * 24 * Hour
             THEN <<NewValidationIssue(SeverityWarning, "backup is quite old", setInfo.Path,
                      "consider creating more recent backups")>>
             ELSE <<>>)

\* validateBackupAge with now the reading of time.Now(), in seconds.
validateBackupAge(setInfo, now) ==
    IF setInfo.ModTime = ZeroTime THEN <<>>
    ELSE
        LET age == now - setInfo.ModTime
        IN  (IF age < Hour
             THEN <<NewValidationIssue(SeverityInfo, "backup is very recent", setInfo.Path,
                      "backup might still be in progress")>>
             ELSE <<>>)
            \o
            (IF age > 90 * 24 * Hour
             THEN <<NewValidationIssue(SeverityWarning, "backup is quite old", setInfo.Path,
                      "consider creating more recent backups")>>
             ELSE <<>>)

\* Mutant: every issue counts as a failed check, whatever its severity.
countPassedChecksAnySeverity(issues, severities) ==
    LET failedChecks == Len(issues)
        baselineChecks == 5
    IN  maxInt(0, baselineChecks - failedChecks)

countPassedChecks(issues, severities) ==
    LET failedChecks == Cardinality({i \in 1..Len(issues) : issues[i].Severity \in severities})
        baselineChecks == 5
    IN  maxInt(0, baselineChecks - failedChecks)

\* The validity loop of validateFileBackupSet.
IsValid(issues) == \A i \in 1..Len(issues) : ~(issues[i].Severity >= SeverityError)

\* validateFileBackupSet, with n the number of files the content validation
\* examines before it returns.
validateFileBackupSet(tree, setInfo, n, now) ==
    LET structural == validateBackupStructure(tree, setInfo)
        content == validateBackupContent(tree, setInfo, n)
        issues == structural \o validateBackupCompleteness(setInfo) \o content.issues
                    \o validateBackupAge(setInfo, now)
        some == Len(setInfo.CatalogFiles) > 0 \/ Len(setInfo.BackupFiles) > 0
        stats == [TotalFiles |-> setInfo.FileCount,
                  ValidatedFiles |-> content.stats.ValidatedFiles,
                  CorruptFiles |-> content.stats.CorruptFiles,
                  TotalSize |-> setInfo.Size,
                  CatalogFiles |-> Len(setInfo.CatalogFiles),
                  BackupFiles |-> Len(setInfo.BackupFiles),
                  OldestBackupTime |-> IF some THEN setInfo.ModTime ELSE NilTime,
                  NewestBackupTime |-> IF some THEN setInfo.ModTime ELSE NilTime,
                  StructuralChecks |->
                      countPassedChecks(structural, {SeverityCritical, SeverityError}),
                  ContentChecks |-> content.stats.ContentChecks]
    IN  [BackupDir |-> setInfo.Path, Valid |-> IsValid(issues), Issues |-> issues,
         ValidationStats |-> stats]

(***************************************************************************)
(* The inputs of a scan: the trees it may find on disk, the worker count   *)
(* it is called with, and the clock.                                       *)
(***************************************************************************)

\* Most set directories of a machine directory.
MaxSets == 2

\* Largest worker count a scan is called with.
MaxWorkers == 2

\* The reading of the clock, in seconds.
Now == 10000000

Day == 86400

RegularFile(rel, size, mtime) ==
    [rel |-> rel, size |-> size, mtime |-> mtime, walkErr |-> FALSE, statOK |-> TRUE,
     openOK |-> TRUE, readOK |-> TRUE, zipOK |-> FALSE, entries |-> <<>>]

Member(size, read) == [size |-> size, openOK |-> TRUE, read |-> read]

ZipFile(rel, size, mtime, entries) ==
    [RegularFile(rel, size, mtime) EXCEPT !.zipOK = TRUE, !.entries = entries]

\* The kinds of entry a machine directory holds.
SetKinds == {"full", "gap", "old", "empty", "ext"}

\* The entry called name, of the given kind.
SetEntry(name, kind) ==
    CASE kind = "full" ->
            \* a sound set, ten days old
            [name |-> name, isDir |-> TRUE, dirs |-> {"Catalogs"},
             files |-> <<ZipFile("Backup files 1.zip", 4096, Now - 10 * Day,
                                 <<Member(100, "nil"), Member(0, "nil")>>),
                         RegularFile("Catalogs/x.wbcat", 512, Now - 10 * Day)>>]
      [] kind = "gap" ->
            \* no Catalogs folder, a gap in the numbering, a truncated archive;
            \* as old as a sound set
            [name |-> name, isDir |-> TRUE, dirs |-> {},
             files |-> <<ZipFile("Backup Files (1).zip", 300, Now - 10 * Day,
                                 <<Member(300, "ErrUnexpectedEOF")>>),
                         ZipFile("Backup Files (3).zip", 200, Now - 11 * Day,
                                 <<Member(200, "checksum error")>>)>>]
      [] kind = "old" ->
            \* an archive holding one empty member, an empty catalog, 100 days old
            [name |-> name, isDir |-> TRUE, dirs |-> {"Catalogs"},
             files |-> <<ZipFile("BackupFiles2.zip", 2048, Now - 100 * Day,
                                 <<Member(0, "nil")>>),
                         RegularFile("Catalogs/GlobalCatalog.wbcat", 0, Now - 100 * Day)>>]
      [] kind = "empty" ->
            \* a directory without files: its descriptor keeps the zero time
            [name |-> name, isDir |-> TRUE, dirs |-> {}, files |-> <<>>]
      [] kind = "ext" ->
            \* a directory whose name has an extension: no candidate set
            [name |-> name \o ".bak", isDir |-> TRUE, dirs |-> {},
             files |-> <<RegularFile("readme.txt", 10, Now - Day)>>]

\* The names of the entries of a machine directory, in os.ReadDir order.
SetName(k) == IF k < 10 THEN "Set0" \o Sprintd(k) ELSE "Set" \o Sprintd(k)

\* The listings a machine directory may have: up to MaxSets entries.
SetListings ==
    UNION {{[k \in 1..n |-> SetEntry(SetName(k), kinds[k])] : kinds \in [1..n -> SetKinds]} :
           n \in 0..MaxSets}

\* root/MediaID.bin as the scan may find it.
Markers ==
    {[exists |-> FALSE, isDir |-> FALSE, statOK |-> FALSE, size |-> 0,
      openOK |-> FALSE, readOK |-> FALSE],
     [exists |-> TRUE, isDir |-> FALSE, statOK |-> TRUE, size |-> 0,
      openOK |-> TRUE, readOK |-> TRUE],
     [exists |-> TRUE, isDir |-> FALSE, statOK |-> TRUE, size |-> 1024 * 1024 + 1,
      openOK |-> TRUE, readOK |-> TRUE],
     [exists |-> TRUE, isDir |-> FALSE, statOK |-> TRUE, size |-> 64,
      openOK |-> FALSE, readOK |-> FALSE],
     [exists |-> TRUE, isDir |-> FALSE, statOK |-> TRUE, size |-> 64,
      openOK |-> TRUE, readOK |-> TRUE]}

\* What the root holds besides the first machine directory.
OtherEntries ==
    {<<>>,
     <<[name |-> "PC2", isDir |-> TRUE, readable |-> FALSE, sets |-> <<>>]>>,
     <<[name |-> "notes.txt", isDir |-> FALSE, readable |-> FALSE, sets |-> <<>>]>>}

\* A tree: the marker, the root's readability, the first machine directory's
\* listing and the root's other entries.
Tree(mk, rr, sets, others) ==
    [marker |-> mk, rootReadable |-> rr,
     machines |-> <<[name |-> "PC1", isDir |-> TRUE, readable |-> TRUE, sets |-> sets]>>
                    \o others]

\* The trees a scan is run on: every marker over every listing of a readable
\* root, and every kind of root over the listings of at most one entry.
Trees ==
    {Tree(mk, TRUE, sets, <<>>) : mk \in Markers, sets \in SetListings}
    \cup
    {Tree(mk, rr, sets, others) :
        mk \in Markers, rr \in BOOLEAN, sets \in {l \in SetListings : Len(l) <= 1},
        others \in OtherEntries}

\* The trees of the runs whose scheduling is examined under fairness: a sound
\* marker, a readable root, sets with and without files.
PoolTrees ==
    {Tree(mk, TRUE, [k \in 1..n |-> SetEntry(SetName(k), kinds[k])], <<>>) :
        mk \in {m \in Markers : m.exists /\ m.size = 64 /\ m.openOK},
        n \in 0..MaxSets, kinds \in [1..MaxSets -> {"full", "gap", "empty"}]}

\* The trees discovery is examined on: up to MaxSortLen sets, all of one kind
\* but at most one.
SortKinds == {"empty", "full", "old"}

SortTrees ==
    {Tree(mk, TRUE,
          [k \in 1..n |-> SetEntry(SetName(k), IF k = p THEN odd ELSE base)], <<>>) :
        mk \in {m \in Markers : m.exists /\ m.size = 64 /\ m.openOK},
        n \in 0..MaxSortLen, p \in 1..MaxSortLen, base \in SortKinds, odd \in SortKinds}

\* The backup-data file names the completeness rule is examined on, each with
\* the index its name carries (matches FALSE: the name fits no pattern).
MaxFiles == 3

FileName(name, matches, index) ==
    [path |-> Join(Join(Join(Root, "PC1"), "Set01"), name), matches |-> matches,
     index |-> index]

FileNames ==
    {FileName("Backup files " \o Sprintd(i) \o ".zip", TRUE, i) : i \in -2..4}
    \cup {FileName("Backup Files (" \o Sprintd(i) \o ").zip", TRUE, i) : i \in 1..3}
    \cup {FileName("BackupFiles" \o Sprintd(i) \o ".zip", TRUE, i) : i \in {2, 4}}
    \cup {FileName("data.zip", FALSE, 0), FileName("Backup files.zip", FALSE, 0)}

\* The lists gatherBackupSetInfo can hand over: sorted by path, without repeats.
FileLists ==
    {LET paths == SortStrings(CHOOSE q \in [1..Cardinality(S) -> {f.path : f \in S}] :
                                 \A f \in S : \E i \in 1..Cardinality(S) : q[i] = f.path)
     IN  [i \in 1..Cardinality(S) |-> CHOOSE f \in S : f.path = paths[i]] :
     S \in {T \in SUBSET FileNames : Cardinality(T) <= MaxFiles}}

\* The archives the content rule is examined on.
ArchiveKinds == {"noEntries", "oneEmpty", "oneEmptyUnopenable", "oneSound", "oneDamaged",
                 "twoEmpty", "noArchive"}

Archive(rel, kind) ==
    CASE kind = "noEntries" -> ZipFile(rel, 22, Now - 10 * Day, <<>>)
      [] kind = "oneEmpty" -> ZipFile(rel, 120, Now - 10 * Day, <<Member(0, "nil")>>)
      [] kind = "oneEmptyUnopenable" ->
            ZipFile(rel, 120, Now - 10 * Day, <<[Member(0, "nil") EXCEPT !.openOK = FALSE]>>)
      [] kind = "oneSound" -> ZipFile(rel, 2048, Now - 10 * Day, <<Member(1500, "nil")>>)
      [] kind = "oneDamaged" ->
            ZipFile(rel, 2048, Now - 10 * Day, <<Member(1500, "checksum error")>>)
      [] kind = "twoEmpty" ->
            ZipFile(rel, 240, Now - 10 * Day, <<Member(0, "nil"), Member(0, "nil")>>)
      [] kind = "noArchive" -> RegularFile(rel, 300, Now - 10 * Day)

\* The catalogs beside them: none, a sound one, an empty one.
CatalogChoices ==
    {<<>>,
     <<RegularFile("Catalogs/GlobalCatalog.wbcat", 512, Now - 10 * Day)>>,
     <<RegularFile("Catalogs/GlobalCatalog.wbcat", 0, Now - 10 * Day)>>}

\* One set of up to MaxArchives archives and a catalog choice.
MaxArchives == 2

ContentTrees ==
    {Tree(mk, TRUE,
          <<[name |-> SetName(1), isDir |-> TRUE, dirs |-> {"Catalogs"},
             files |-> [k \in 1..n |->
                           Archive("Backup files " \o Sprintd(k) \o ".zip", kinds[k])]
                       \o cats]>>,
          <<>>) :
        mk \in {m \in Markers : m.exists /\ m.size = 64 /\ m.openOK},
        n \in 0..MaxArchives, kinds \in [1..MaxArchives -> ArchiveKinds],
        cats \in CatalogChoices}

\* The sound set of the documented scenario: a non-empty Catalogs/x.wbcat and
\* the archives "Backup Files 1.zip" to "Backup Files 3.zip", ten days old, each
\* archive holding readable data; the sizes on disk and the members vary.
ScenarioTrees ==
    {Tree(mk, TRUE,
          <<[name |-> SetName(1), isDir |-> TRUE, dirs |-> {"Catalogs"},
             files |-> [k \in 1..3 |->
                           ZipFile("Backup Files " \o Sprintd(k) \o ".zip", zipSize,
                                   Now - 10 * Day, members)]
                       \o <<RegularFile("Catalogs/x.wbcat", catSize, Now - 10 * Day)>>]>>,
          <<>>) :
        mk \in {m \in Markers : m.exists /\ m.size = 64 /\ m.openOK},
        zipSize \in {200, 4096}, catSize \in {10, 512},
        members \in {<<Member(100, "nil")>>,
                      <<Member(5000, "nil"), Member(0, "nil")>>,
                      <<Member(40, "nil"), Member(2000, "nil"), Member(7, "nil"),
                        Member(2000, "checksum error")>>}}

\* The files the structure rule is examined on; a set holds any of them, in
\* this order.
StructureFiles ==
    <<ZipFile("Backup files 1.zip", 200, Now - 10 * Day, <<Member(100, "nil")>>),
      ZipFile("Backup files 2.zip", 2000, Now - 10 * Day, <<Member(100, "nil")>>),
      RegularFile("Catalogs/GlobalCatalog.wbcat", 512, Now - 10 * Day),
      RegularFile("GlobalCatalog.wbcat", 30, Now - 10 * Day),
      [RegularFile("locked.zip", 5000, Now - 10 * Day) EXCEPT !.walkErr = TRUE],
      RegularFile("readme.txt", 10, Now - 10 * Day)>>

\* The members of list whose position is in keep, in order.
RECURSIVE Pick(_, _, _)
Pick(list, keep, k) ==
    IF k > Len(list) THEN <<>>
    ELSE (IF k \in keep THEN <<list[k]>> ELSE <<>>) \o Pick(list, keep, k + 1)

\* One set holding some of StructureFiles, with or without a Catalogs folder
\* (with it whenever a file lies in it).
StructureTrees ==
    {Tree(mk, TRUE,
          <<[name |-> SetName(1), isDir |-> TRUE,
             dirs |-> IF withDir \/ 3 \in keep THEN {"Catalogs"} ELSE {},
             files |-> Pick(StructureFiles, keep, 1)]>>,
          <<>>) :
        mk \in {m \in Markers : m.exists /\ m.size = 64 /\ m.openOK},
        keep \in SUBSET (1..Len(StructureFiles)), withDir \in BOOLEAN}

\* The modification times the age rule is examined on: the zero time, and the
\* times whose age lies within AgeSpread seconds of a threshold, ahead of the
\* clock, or well between the thresholds.
AgeSpread == 25

Ages ==
    ((Hour - AgeSpread)..(Hour + AgeSpread))
    \cup ((90 * Day - AgeSpread)..(90 * Day + AgeSpread))
    \cup {-5, 0, 1, 10 * Day, 100 * Day}

ModTimes == {ZeroTime} \cup {Now - a : a \in Ages}

\* A sound set last modified 100 days ago.
AgedSet ==
    [name |-> SetName(1), isDir |-> TRUE, dirs |-> {"Catalogs"},
     files |-> <<ZipFile("Backup files 1.zip", 4096, Now - 100 * Day,
                         <<Member(100, "nil"), Member(0, "nil")>>),
                 RegularFile("Catalogs/x.wbcat", 512, Now - 100 * Day)>>]

\* The trees main is examined on: a sound set; a sound set 100 days old; a set
\* with a gap and truncated archives; no marker; a root that cannot be listed;
\* a root without sets.
MainTrees ==
    LET sound == CHOOSE m \in Markers : m.exists /\ m.size = 64 /\ m.openOK
        none == CHOOSE m \in Markers : ~m.exists
    IN  {Tree(sound, TRUE, <<SetEntry(SetName(1), "full")>>, <<>>),
         Tree(sound, TRUE, <<AgedSet>>, <<>>),
         Tree(sound, TRUE, <<SetEntry(SetName(1), "gap")>>, <<>>),
         Tree(none, TRUE, <<SetEntry(SetName(1), "full")>>, <<>>),
         Tree(sound, FALSE, <<SetEntry(SetName(1), "full")>>, <<>>),
         Tree(sound, TRUE, <<>>, <<>>)}

\* Most backup paths of a configuration.
MaxPaths == 2

\* cfg.BackupPaths: Validate rejects the empty list.
PathLists == UNION {[1..n -> MainTrees] : n \in 1..MaxPaths}

\* A small set 100 days old with a gap in the numbering, a damaged archive and
\* an empty catalog: every rule has something to report.
WornSet ==
    [name |-> SetName(1), isDir |-> TRUE, dirs |-> {"Catalogs"},
     files |-> <<ZipFile("Backup Files 1.zip", 100, Now - 100 * Day,
                         <<Member(100, "checksum error")>>),
                 ZipFile("Backup Files 3.zip", 100, Now - 101 * Day,
                         <<Member(100, "nil")>>),
                 RegularFile("Catalogs/GlobalCatalog.wbcat", 0, Now - 100 * Day)>>]

\* A sound archive beside catalogs that cannot be opened, read or stat'ed.
BadCatalogsSet ==
    [name |-> SetName(1), isDir |-> TRUE, dirs |-> {"Catalogs"},
     files |-> <<ZipFile("Backup files 1.zip", 4096, Now - 10 * Day,
                         <<Member(100, "nil"), Member(0, "nil")>>),
                 [RegularFile("Catalogs/a.wbcat", 512, Now - 10 * Day)
                     EXCEPT !.openOK = FALSE],
                 [RegularFile("Catalogs/b.wbcat", 512, Now - 10 * Day)
                     EXCEPT !.readOK = FALSE],
                 [RegularFile("Catalogs/c.wbcat", 512, Now - 10 * Day)
                     EXCEPT !.statOK = FALSE]>>]

\* The trees one validation pass is followed on, step by step: one set each.
PassTrees ==
    ContentTrees
    \cup
    {Tree(mk, TRUE, <<set>>, <<>>) :
        mk \in {m \in Markers : m.exists /\ m.size = 64 /\ m.openOK},
        set \in {SetEntry(SetName(1), "full"), SetEntry(SetName(1), "gap"),
                 SetEntry(SetName(1), "old"), SetEntry(SetName(1), "empty"),
                 AgedSet, WornSet, BadCatalogsSet}}

(***************************************************************************)
(* State.                                                                  *)
(***************************************************************************)

VARIABLES
    fs,          \* the tree under the root
    maxWorkers,  \* the worker count ScanFileBackupDir is called with
    ctxDone,     \* ctx.Done() is closed: the deadline passed or the caller cancelled
    scanPC,      \* ScanFileBackupDir: "marker", "discover", "validate", "returned"
    scanReport,  \* report.Reports
    scanErr,     \* ScanFileBackupDir returned (nil, err)
    backupSets,  \* the descriptors discovery returned
    schedPC,     \* validateBackupSets: "Idle", "Running", "Done"
    reports,     \* the results array
    work,        \* the buffered channel of indices
    workClosed,  \* close(work) has run
    dispPC,      \* the dispatcher goroutine: "idle", "feeding", "exited"
    dispI,       \* the dispatcher's loop index
    workers,     \* the worker goroutines: [pc, idx, k]
    wg,          \* the WaitGroup counter
    stored,      \* history: [idx, k] of the reports stored, in completion order; k the
                 \* number of files examined
    paths,       \* main: cfg.BackupPaths, each path given as the tree under it
    pathI,       \* main: the position in paths of the scan in hand
    allReports,  \* main: the ScanReports collected
    fatalErrors, \* main: the messages of the scans that returned an error
    mainPC,      \* main: "load", "scan", "exited" (os.Exit with the decided code),
                 \* "aborted" (os.Exit(2) on a configuration or output failure)
    exitCode,    \* main: <<>> while running, <<code>> once the process has exited
    summary,     \* main: <<>> until calculateSummary has run, then <<ScanSummary>>
    arg,         \* the argument of a validation rule applied on its own
    result       \* what the rule returned: <<>> before the call, <<value>> after

vars == <<fs, maxWorkers, ctxDone, scanPC, scanReport, scanErr, backupSets, schedPC,
          reports, work, workClosed, dispPC, dispI, workers, wg, stored, paths, pathI,
          allReports, fatalErrors, mainPC, exitCode, summary, arg, result>>

mainVars == <<paths, pathI, allReports, fatalErrors, mainPC, exitCode, summary>>

\* What a scan never writes.
inputVars == <<fs, maxWorkers, arg, result, mainVars>>

scanVars == <<scanPC, scanReport, scanErr, backupSets>>

poolVars == <<schedPC, reports, work, workClosed, dispPC, dispI, workers, wg, stored>>

\* The state of a scan that has not begun.
ScanIdle ==
    /\ ctxDone = FALSE
    /\ scanPC = "marker"
    /\ scanReport = <<>>
    /\ scanErr = FALSE
    /\ backupSets = <<>>
    /\ schedPC = "Idle"
    /\ reports = <<>>
    /\ work = <<>>
    /\ workClosed = FALSE
    /\ dispPC = "idle"
    /\ dispI = 1
    /\ workers = <<>>
    /\ wg = 0
    /\ stored = <<>>

\* ScanFileBackupDir called on its own: main holds nothing.
MainIdle ==
    /\ paths = <<>>
    /\ pathI = 0
    /\ allReports = <<>>
    /\ fatalErrors = <<>>
    /\ mainPC = "scan"
    /\ exitCode = <<>>
    /\ summary = <<>>

Init ==
    /\ fs \in Trees
    /\ maxWorkers \in -1..MaxWorkers
    /\ arg = <<>>
    /\ result = <<>>
    /\ ScanIdle
    /\ MainIdle

(***************************************************************************)
(* ScanFileBackupDir.                                                      *)
(***************************************************************************)

\* The report for the root when MediaID.bin is missing.
MissingMarkerReport ==
    [BackupDir |-> Root, Valid |-> FALSE,
     Issues |-> <<NewValidationIssue(SeverityCritical, "missing MediaID.bin at root", Root,
                    "ensure the backup root directory is correct and contains MediaID.bin")>>,
     ValidationStats |-> ZeroStats]

\* The report for the root when MediaID.bin fails validateMediaID with err.
InvalidMarkerReport(err) ==
    [BackupDir |-> Root, Valid |-> FALSE,
     Issues |-> <<NewValidationIssue(SeverityError, "invalid MediaID.bin: " \o err.msg,
                    Join(Root, "MediaID.bin"),
                    "check if MediaID.bin is corrupted or from a different backup system")>>,
     ValidationStats |-> ZeroStats]

\* Mutant: the scan goes on to discovery when MediaID.bin is missing.
MarkerOutcomeNoReturn(tree) ==
    IF ~fileExists(tree) THEN [reports |-> <<MissingMarkerReport>>, goOn |-> TRUE]
    ELSE LET err == validateMediaID(tree.marker)
         IN  IF err.err THEN [reports |-> <<InvalidMarkerReport(err)>>, goOn |-> TRUE]
             ELSE [reports |-> <<>>, goOn |-> TRUE]

\* Mutant: the scan returns when MediaID.bin is invalid.
MarkerOutcomeInvalidReturns(tree) ==
    IF ~fileExists(tree) THEN [reports |-> <<MissingMarkerReport>>, goOn |-> FALSE]
    ELSE LET err == validateMediaID(tree.marker)
         IN  IF err.err THEN [reports |-> <<InvalidMarkerReport(err)>>, goOn |-> FALSE]
             ELSE [reports |-> <<>>, goOn |-> TRUE]

\* What the marker checks append to report.Reports, and whether the scan goes on.
MarkerOutcome(tree) ==
    IF ~fileExists(tree) THEN [reports |-> <<MissingMarkerReport>>, goOn |-> FALSE]
    ELSE LET err == validateMediaID(tree.marker)
         IN  IF err.err THEN [reports |-> <<InvalidMarkerReport(err)>>, goOn |-> TRUE]
             ELSE [reports |-> <<>>, goOn |-> TRUE]

\* Lines 562-592: the root must hold MediaID.bin, which is then validated.
ScanMarker ==
    /\ scanPC = "marker"
    /\ LET out == MarkerOutcome(fs)
       IN  /\ scanReport' = scanReport \o out.reports
           /\ scanPC' = IF out.goOn THEN "discover" ELSE "returned"
    /\ UNCHANGED <<inputVars, ctxDone, scanErr, backupSets, poolVars>>

\* Lines 594-598: discover the backup sets; a discovery error ends the scan with
\* (nil, err).
ScanDiscover ==
    /\ scanPC = "discover"
    /\ LET found == discoverBackupSets(fs)
       IN  IF found.err
           THEN /\ scanErr' = TRUE
                /\ scanReport' = <<>>
                /\ scanPC' = "returned"
                /\ UNCHANGED backupSets
           ELSE /\ Len(found.sets) <= MaxSortLen
                /\ backupSets' = found.sets
                /\ scanPC' = "validate"
                /\ UNCHANGED <<scanErr, scanReport>>
    /\ UNCHANGED <<inputVars, ctxDone, poolVars>>

(***************************************************************************)
(* validateBackupSets: the worker pool.                                    *)
(***************************************************************************)

\* Mutant: the guard of lines 704-706 tests maxWorkers < 0.
EffectiveWorkersZeroKept(n) == IF n < 0 THEN 1 ELSE n

\* Lines 704-706: the number of workers started.
EffectiveWorkers(n) == IF n <= 0 THEN 1 ELSE n

\* Lines 703-743: the results array and the queue are made, the workers and the
\* dispatcher are started; the caller goes on to wg.Wait().
PoolStart ==
    /\ scanPC = "validate"
    /\ schedPC = "Idle"
    /\ schedPC' = "Running"
    /\ reports' = [i \in 1..Len(backupSets) |-> ZeroReport]
    /\ work' = <<>>
    /\ workClosed' = FALSE
    /\ workers' = [w \in 1..EffectiveWorkers(maxWorkers) |-> [pc |-> "select", idx |-> 0, k |-> 0]]
    /\ wg' = EffectiveWorkers(maxWorkers)
    /\ dispPC' = "feeding"
    /\ dispI' = 1
    /\ stored' = <<>>
    /\ UNCHANGED <<inputVars, ctxDone, scanVars>>

\* Line 738: the dispatcher sends the next index; the send needs room in the buffer.
DispatchSend ==
    /\ dispPC = "feeding"
    /\ dispI <= Len(backupSets)
    /\ Len(work) < Len(backupSets)
    /\ work' = Append(work, dispI)
    /\ dispI' = dispI + 1
    /\ UNCHANGED <<inputVars, ctxDone, scanVars, schedPC, reports, workClosed, dispPC,
                   workers, wg, stored>>

\* Lines 739-740 and 735: the dispatcher's select takes ctx.Done(); it returns and
\* the deferred close runs.
\* Mutant: the dispatcher returns on the signal without closing the queue.
DispatchCancelledNoClose ==
    /\ dispPC = "feeding"
    /\ dispI <= Len(backupSets)
    /\ ctxDone
    /\ dispPC' = "exited"
    /\ UNCHANGED <<inputVars, ctxDone, scanVars, schedPC, reports, work, workClosed, dispI,
                   workers, wg, stored>>

DispatchCancelled ==
    /\ dispPC = "feeding"
    /\ dispI <= Len(backupSets)
    /\ ctxDone
    /\ workClosed' = TRUE
    /\ dispPC' = "exited"
    /\ UNCHANGED <<inputVars, ctxDone, scanVars, schedPC, reports, work, dispI, workers, wg,
                   stored>>

\* Mutant: the dispatcher returns without closing the queue.
DispatchCloseForgotten ==
    /\ dispPC = "feeding"
    /\ dispI > Len(backupSets)
    /\ dispPC' = "exited"
    /\ UNCHANGED <<inputVars, ctxDone, scanVars, schedPC, reports, work, workClosed, dispI,
                   workers, wg, stored>>

\* Lines 735-736: every index has been sent; the deferred close runs.
DispatchClose ==
    /\ dispPC = "feeding"
    /\ dispI > Len(backupSets)
    /\ workClosed' = TRUE
    /\ dispPC' = "exited"
    /\ UNCHANGED <<inputVars, ctxDone, scanVars, schedPC, reports, work, dispI, workers, wg,
                   stored>>

\* Line 721: a worker's select receives an index.
\* Mutant: the worker reads the index at the head of the queue and leaves it there.
WorkerReceiveKeepsHead ==
    \E w \in DOMAIN workers :
        /\ workers[w].pc = "select"
        /\ Len(work) > 0
        /\ workers' = [workers EXCEPT ![w] = [pc |-> "validate", idx |-> Head(work), k |-> 0]]
        /\ UNCHANGED <<inputVars, ctxDone, scanVars, schedPC, reports, work, workClosed,
                       dispPC, dispI, wg, stored>>

WorkerReceive ==
    \E w \in DOMAIN workers :
        /\ workers[w].pc = "select"
        /\ Len(work) > 0
        /\ workers' = [workers EXCEPT ![w] = [pc |-> "validate", idx |-> Head(work), k |-> 0]]
        /\ work' = Tail(work)
        /\ UNCHANGED <<inputVars, ctxDone, scanVars, schedPC, reports, workClosed, dispPC,
                       dispI, wg, stored>>

\* Lines 721-724 and 718: the receive finds the queue closed and drained; the
\* worker returns.
WorkerDrained ==
    \E w \in DOMAIN workers :
        /\ workers[w].pc = "select"
        /\ Len(work) = 0
        /\ workClosed
        /\ workers' = [workers EXCEPT ![w].pc = "exited"]
        /\ wg' = wg - 1
        /\ UNCHANGED <<inputVars, ctxDone, scanVars, schedPC, reports, work, workClosed,
                       dispPC, dispI, stored>>

\* Lines 726-727 and 718: the worker's select takes ctx.Done(); the worker returns.
WorkerCancelled ==
    \E w \in DOMAIN workers :
        /\ workers[w].pc = "select"
        /\ ctxDone
        /\ workers' = [workers EXCEPT ![w].pc = "exited"]
        /\ wg' = wg - 1
        /\ UNCHANGED <<inputVars, ctxDone, scanVars, schedPC, reports, work, workClosed,
                       dispPC, dispI, stored>>

\* Mutant: the report goes to the first slot still zero-valued, so the results
\* come in completion order.
StoreReportInCompletionOrder(rs, idx, report) ==
    LET free == {i \in DOMAIN rs : rs[i] = ZeroReport}
    IN  IF free = {} THEN rs
        ELSE [rs EXCEPT ![CHOOSE i \in free : \A j \in free : i <= j] = report]

\* Mutant: the report goes to the slot after the worker's own.
StoreReportOffByOne(rs, idx, report) == [rs EXCEPT ![(idx % Len(rs)) + 1] = report]

\* Line 725: reports[idx] = report.
StoreReport(rs, idx, report) == [rs EXCEPT ![idx] = report]

\* The number of files the content validation of a descriptor runs over.
ContentTotal(setInfo) == Len(setInfo.BackupFiles) + Len(setInfo.CatalogFiles)

\* Lines 932-950 and 953-971: in front of the next file the cancellation check
\* finds the signal not fired, and the file is examined.
WorkerFile ==
    \E w \in DOMAIN workers :
        /\ workers[w].pc = "validate"
        /\ workers[w].k < ContentTotal(backupSets[workers[w].idx])
        /\ ~ctxDone
        /\ workers' = [workers EXCEPT ![w].k = @ + 1]
        /\ UNCHANGED <<inputVars, ctxDone, scanVars, schedPC, reports, work, workClosed,
                       dispPC, dispI, wg, stored>>

\* Line 725: the content validation has returned (after its last file, or at a
\* cancellation check that found the signal fired); the report is completed and
\* stored in the worker's slot.
WorkerStore ==
    \E w \in DOMAIN workers :
        /\ workers[w].pc = "validate"
        /\ \/ workers[w].k = ContentTotal(backupSets[workers[w].idx])
           \/ ctxDone
        /\ reports' = StoreReport(reports, workers[w].idx,
                          validateFileBackupSet(fs, backupSets[workers[w].idx],
                                                workers[w].k, Now))
        /\ workers' = [workers EXCEPT ![w].pc = "select"]
        /\ stored' = Append(stored, [idx |-> workers[w].idx, k |-> workers[w].k])
        /\ UNCHANGED <<inputVars, ctxDone, scanVars, schedPC, work, workClosed, dispPC,
                       dispI, wg>>

\* Mutant: the caller waits for the dispatcher, not for the workers.
PoolReturnWithoutWait ==
    /\ schedPC = "Running"
    /\ dispPC = "exited"
    /\ schedPC' = "Done"
    /\ scanReport' = scanReport \o reports
    /\ scanPC' = "returned"
    /\ UNCHANGED <<inputVars, ctxDone, scanErr, backupSets, reports, work, workClosed,
                   dispPC, dispI, workers, wg, stored>>

\* Lines 745-747 and 603-608: wg.Wait() returns once every worker has returned;
\* the results are appended to the scan report, which is returned.
PoolReturn ==
    /\ schedPC = "Running"
    /\ wg = 0
    /\ schedPC' = "Done"
    /\ scanReport' = scanReport \o reports
    /\ scanPC' = "returned"
    /\ UNCHANGED <<inputVars, ctxDone, scanErr, backupSets, reports, work, workClosed,
                   dispPC, dispI, workers, wg, stored>>

\* The deadline of the context passes, or its parent is cancelled.
Cancel ==
    /\ ~ctxDone
    /\ scanPC # "returned"
    /\ ctxDone' = TRUE
    /\ UNCHANGED <<inputVars, scanVars, poolVars>>

\* validateBackupCompleteness applied to a descriptor holding the files of arg.
ApplyCompleteness ==
    /\ result = <<>>
    /\ result' = <<validateBackupCompleteness(
                      [Path |-> Join(Join(Root, "PC1"), "Set01"), Size |-> 0,
                       FileCount |-> Len(arg), ModTime |-> ZeroTime, CatalogFiles |-> <<>>,
                       BackupFiles |-> [i \in 1..Len(arg) |-> arg[i].path]])>>
    /\ UNCHANGED <<fs, maxWorkers, arg, mainVars, ctxDone, scanVars, poolVars>>

\* The descriptor of the only set of fs.
OnlySet == DiscoverMachines(fs.machines, 1)[1]

(***************************************************************************)
(* main (cmd/checker/main.go): the scans of the configured paths, one      *)
(* after the other under one context, and the exit code.                   *)
(***************************************************************************)

\* Mutant: invalid reports are looked for before fatal errors.
decideExitCodeInvalidFirst(errors, scans) ==
    IF \E i \in 1..Len(scans) : \E j \in 1..Len(scans[i].Reports) : ~scans[i].Reports[j].Valid
    THEN 1
    ELSE IF Len(errors) > 0 THEN 2
    ELSE 0

decideExitCode(errors, scans) ==
    IF Len(errors) > 0 THEN 2
    ELSE IF \E i \in 1..Len(scans) :
               \E j \in 1..Len(scans[i].Reports) : ~scans[i].Reports[j].Valid
    THEN 1
    ELSE 0

\* The report main records for a scan that returned an error.
FailedScanReport ==
    [Root |-> Root,
     Reports |-> <<[BackupDir |-> Root, Valid |-> FALSE,
                    Issues |-> <<NewValidationIssue(SeverityCritical,
                                   "failed to discover backup sets: failed to read backup root",
                                   Root, "check path accessibility and permissions")>>,
                    ValidationStats |-> ZeroStats]>>]

\* The body of main's loop past the call: what the scan in hand adds.
CollectedReports ==
    Append(allReports,
           IF scanErr THEN FailedScanReport ELSE [Root |-> Root, Reports |-> scanReport])

CollectedErrors ==
    IF scanErr THEN Append(fatalErrors, "Scan failed for " \o Root) ELSE fatalErrors

\* The inner loop of calculateSummary over the reports of one ScanReport.
RECURSIVE SummaryReports(_, _, _)
SummaryReports(s, brs, j) ==
    IF j > Len(brs) THEN s
    ELSE SummaryReports(
             IF brs[j].Valid
             THEN [s EXCEPT !.TotalBackups = @ + 1, !.ValidBackups = @ + 1]
             ELSE [s EXCEPT !.TotalBackups = @ + 1, !.InvalidBackups = @ + 1],
             brs, j + 1)

\* The outer loop of calculateSummary.
RECURSIVE SummaryScans(_, _, _)
SummaryScans(s, scans, i) ==
    IF i > Len(scans) THEN s
    ELSE SummaryScans(SummaryReports(s, scans[i].Reports, 1), scans, i + 1)

\* Mutant: the scans that failed are not counted.
calculateSummaryNoFailedScans(scans, errors) ==
    SummaryScans([TotalBackups |-> 0, ValidBackups |-> 0, InvalidBackups |-> 0,
                  FailedScans |-> 0], scans, 1)

calculateSummary(scans, errors) ==
    SummaryScans([TotalBackups |-> 0, ValidBackups |-> 0, InvalidBackups |-> 0,
                  FailedScans |-> Len(errors)], scans, 1)

\* LoadConfig and LoadEmailConfig: either fails and main exits with 2, or the
\* loop begins.
MainLoadConfig ==
    /\ mainPC = "load"
    /\ \E loaded \in BOOLEAN :
          IF loaded
          THEN mainPC' = "scan" /\ UNCHANGED exitCode
          ELSE mainPC' = "aborted" /\ exitCode' = <<2>>
    /\ UNCHANGED <<fs, maxWorkers, arg, result, paths, pathI, allReports, fatalErrors,
                   summary, ctxDone, scanVars, poolVars>>

\* The scan in hand has returned and another path follows: its outcome is
\* collected and the next scan is called, under the same context.
MainNextPath ==
    /\ mainPC = "scan"
    /\ scanPC = "returned"
    /\ pathI < Len(paths)
    /\ allReports' = CollectedReports
    /\ fatalErrors' = CollectedErrors
    /\ pathI' = pathI + 1
    /\ fs' = paths[pathI + 1]
    /\ scanPC' = "marker"
    /\ scanReport' = <<>>
    /\ scanErr' = FALSE
    /\ backupSets' = <<>>
    /\ schedPC' = "Idle"
    /\ reports' = <<>>
    /\ work' = <<>>
    /\ workClosed' = FALSE
    /\ dispPC' = "idle"
    /\ dispI' = 1
    /\ workers' = <<>>
    /\ wg' = 0
    /\ stored' = <<>>
    /\ UNCHANGED <<maxWorkers, arg, result, paths, mainPC, exitCode, summary, ctxDone>>

\* The last scan has returned: its outcome is collected, the summary is
\* calculated, the run report is written unless marshalling or writing fails (os.Exit(2)), and main exits
\* with decideExitCode.
MainFinish ==
    /\ mainPC = "scan"
    /\ scanPC = "returned"
    /\ pathI = Len(paths)
    /\ allReports' = CollectedReports
    /\ fatalErrors' = CollectedErrors
    /\ summary' = <<calculateSummary(CollectedReports, CollectedErrors)>>
    /\ \E written \in BOOLEAN :
          IF written
          THEN /\ mainPC' = "exited"
               /\ exitCode' = <<decideExitCode(CollectedErrors, CollectedReports)>>
          ELSE /\ mainPC' = "aborted"
               /\ exitCode' = <<2>>
    /\ UNCHANGED <<fs, maxWorkers, arg, result, paths, pathI, ctxDone, scanVars, poolVars>>

(***************************************************************************)
(* validateFileBackupSet followed statement by statement on the only set   *)
(* of fs.  result[1] holds the locals of the call: pc, the issue list, the *)
(* stats, and inside validateBackupContent its own issue list and stats    *)
(* (content) and the number k of files it has examined.                    *)
(***************************************************************************)

PassLocals ==
    [pc |-> "structure", k |-> 0, issues |-> <<>>,
     content |-> [issues |-> <<>>, stats |-> ZeroStats],
     stats |-> [ZeroStats EXCEPT !.TotalFiles = OnlySet.FileCount],
     valid |-> FALSE]

PassAt(pc) == Len(result) = 1 /\ result[1].pc = pc

PassRest == <<fs, maxWorkers, arg, mainVars, ctxDone, scanVars, poolVars>>

\* Lines 759-761: structural validation and the count of passed checks.
PassStructure ==
    /\ PassAt("structure")
    /\ LET issues == result[1].issues \o validateBackupStructure(fs, OnlySet)
       IN  result' = <<[result[1] EXCEPT
                          !.issues = issues,
                          !.stats.StructuralChecks =
                              countPassedChecks(issues, {SeverityCritical, SeverityError}),
                          !.pc = "completeness"]>>
    /\ UNCHANGED PassRest

\* Line 764: completeness validation; the content validation is entered.
PassCompleteness ==
    /\ PassAt("completeness")
    /\ result' = <<[result[1] EXCEPT
                      !.issues = @ \o validateBackupCompleteness(OnlySet),
                      !.pc = "content"]>>
    /\ UNCHANGED PassRest

\* Lines 932-950 and 953-971: the cancellation check in front of the next file
\* finds the signal not fired, and the file is examined.
PassContentFile ==
    /\ PassAt("content")
    /\ result[1].k < ContentTotal(OnlySet)
    /\ ~ctxDone
    /\ result' = <<[result[1] EXCEPT
                      !.content = ContentFile(@, fs,
                                      ContentFiles(OnlySet)[result[1].k + 1].path,
                                      ContentFiles(OnlySet)[result[1].k + 1].kind),
                      !.k = @ + 1]>>
    /\ UNCHANGED PassRest

\* Mutant: a content validation cut short returns nothing of what it found.
PassContentReturnDiscardsPartial ==
    /\ PassAt("content")
    /\ result[1].k = ContentTotal(OnlySet) \/ ctxDone
    /\ LET kept == IF result[1].k = ContentTotal(OnlySet) THEN result[1].content
                   ELSE [issues |-> <<>>, stats |-> ZeroStats]
       IN  result' = <<[result[1] EXCEPT
                          !.issues = @ \o kept.issues,
                          !.stats.ContentChecks = kept.stats.ContentChecks,
                          !.stats.ValidatedFiles = kept.stats.ValidatedFiles,
                          !.stats.CorruptFiles = kept.stats.CorruptFiles,
                          !.pc = "age"]>>
    /\ UNCHANGED PassRest

\* Lines 934-936, 955-957, 973 and 767-771: validateBackupContent returns, after
\* its last file or at a check that finds the signal fired; its issues are
\* appended and its counters copied.
PassContentReturn ==
    /\ PassAt("content")
    /\ result[1].k = ContentTotal(OnlySet) \/ ctxDone
    /\ result' = <<[result[1] EXCEPT
                      !.issues = @ \o result[1].content.issues,
                      !.stats.ContentChecks = result[1].content.stats.ContentChecks,
                      !.stats.ValidatedFiles = result[1].content.stats.ValidatedFiles,
                      !.stats.CorruptFiles = result[1].content.stats.CorruptFiles,
                      !.pc = "age"]>>
    /\ UNCHANGED PassRest

\* Line 774: time-based validation.
PassAge ==
    /\ PassAt("age")
    /\ result' = <<[result[1] EXCEPT
                      !.issues = @ \o validateBackupAge(OnlySet, Now),
                      !.pc = "final"]>>
    /\ UNCHANGED PassRest

\* Lines 776-804: the final stats and the validity; the report is returned.
PassReturn ==
    /\ PassAt("final")
    /\ LET some == Len(OnlySet.CatalogFiles) > 0 \/ Len(OnlySet.BackupFiles) > 0
       IN  result' = <<[result[1] EXCEPT
                          !.stats.TotalSize = OnlySet.Size,
                          !.stats.CatalogFiles = Len(OnlySet.CatalogFiles),
                          !.stats.BackupFiles = Len(OnlySet.BackupFiles),
                          !.stats.OldestBackupTime = IF some THEN OnlySet.ModTime ELSE @,
                          !.stats.NewestBackupTime = IF some THEN OnlySet.ModTime ELSE @,
                          !.valid = IsValid(result[1].issues),
                          !.pc = "done"]>>
    /\ UNCHANGED PassRest

\* The deadline passes while the pass is under way.
PassCancel ==
    /\ ~ctxDone
    /\ ~PassAt("done")
    /\ ctxDone' = TRUE
    /\ UNCHANGED <<inputVars, scanVars, poolVars>>

\* validateBackupAge applied to a descriptor last modified at arg.
ApplyAge ==
    /\ result = <<>>
    /\ result' = <<validateBackupAge(
                      [Path |-> Join(Join(Root, "PC1"), "Set01"), Size |-> 0,
                       FileCount |-> 0, ModTime |-> arg, CatalogFiles |-> <<>>,
                       BackupFiles |-> <<>>], Now)>>
    /\ UNCHANGED <<fs, maxWorkers, arg, mainVars, ctxDone, scanVars, poolVars>>

\* validateBackupStructure applied to the only set of fs.
ApplyStructure ==
    /\ result = <<>>
    /\ result' = <<validateBackupStructure(fs, OnlySet)>>
    /\ UNCHANGED <<fs, maxWorkers, arg, mainVars, ctxDone, scanVars, poolVars>>

\* One round of validateBackupContent on the only set of fs: result holds the
\* accumulated [issues, stats] before the first round and after each round.
ContentStep ==
    /\ Len(result) >= 1
    /\ Len(result) - 1 < ContentTotal(OnlySet)
    /\ result' = Append(result,
                     ContentFile(result[Len(result)], fs,
                                 ContentFiles(OnlySet)[Len(result)].path,
                                 ContentFiles(OnlySet)[Len(result)].kind))
    /\ UNCHANGED <<fs, maxWorkers, arg, mainVars, ctxDone, scanVars, poolVars>>

Next ==
    \/ ScanMarker
    \/ ScanDiscover
    \/ PoolStart
    \/ DispatchSend
    \/ DispatchCancelled
    \/ DispatchClose
    \/ WorkerReceive
    \/ WorkerDrained
    \/ WorkerCancelled
    \/ WorkerFile
    \/ WorkerStore
    \/ PoolReturn
    \/ Cancel

Spec == Init /\ [][Next]_vars

\* Discovery on its own, over the trees of SortTrees.
InitSort ==
    /\ fs \in SortTrees
    /\ maxWorkers = 1
    /\ arg = <<>>
    /\ result = <<>>
    /\ ScanIdle
    /\ MainIdle

NextSort ==
    \/ ScanMarker
    \/ ScanDiscover

SpecSort == InitSort /\ [][NextSort]_vars

\* The scan of the documented sound set.
InitScenario ==
    /\ fs \in ScenarioTrees
    /\ maxWorkers \in -1..MaxWorkers
    /\ arg = <<>>
    /\ result = <<>>
    /\ ScanIdle
    /\ MainIdle

SpecScenario == InitScenario /\ [][Next]_vars

\* The structure rule on its own, over the sets of StructureTrees.
InitStructure ==
    /\ fs \in StructureTrees
    /\ maxWorkers = 1
    /\ arg = <<>>
    /\ result = <<>>
    /\ ScanIdle
    /\ MainIdle

NextStructure == ApplyStructure

SpecStructure == InitStructure /\ [][NextStructure]_vars

\* The age rule on its own, over the times of ModTimes.
InitAge ==
    /\ fs = Tree(CHOOSE m \in Markers : m.exists /\ m.size = 64 /\ m.openOK, TRUE, <<>>, <<>>)
    /\ maxWorkers = 1
    /\ arg \in ModTimes
    /\ result = <<>>
    /\ ScanIdle
    /\ MainIdle

NextAge == ApplyAge

SpecAge == InitAge /\ [][NextAge]_vars

\* main over the path lists of PathLists.
InitMain ==
    /\ paths \in PathLists
    /\ pathI = 1
    /\ fs = paths[1]
    /\ allReports = <<>>
    /\ fatalErrors = <<>>
    /\ mainPC = "load"
    /\ exitCode = <<>>
    /\ summary = <<>>
    /\ maxWorkers \in 1..MaxWorkers
    /\ arg = <<>>
    /\ result = <<>>
    /\ ScanIdle

\* ScanFileBackupDir is called from main's loop only.
Scanning == mainPC = "scan"

NextMain ==
    \/ MainLoadConfig
    \/ Scanning /\ ScanMarker
    \/ Scanning /\ ScanDiscover
    \/ Scanning /\ PoolStart
    \/ DispatchSend
    \/ DispatchCancelled
    \/ DispatchClose
    \/ WorkerReceive
    \/ WorkerDrained
    \/ WorkerCancelled
    \/ WorkerFile
    \/ WorkerStore
    \/ PoolReturn
    \/ Scanning /\ Cancel
    \/ MainNextPath
    \/ MainFinish

SpecMain == InitMain /\ [][NextMain]_vars

\* One validation pass over the only set of a tree of PassTrees.
InitPass ==
    /\ fs \in PassTrees
    /\ maxWorkers = 1
    /\ arg = <<>>
    /\ result = <<PassLocals>>
    /\ ScanIdle
    /\ MainIdle

NextPass ==
    \/ PassStructure
    \/ PassCompleteness
    \/ PassContentFile
    \/ PassContentReturn
    \/ PassAge
    \/ PassReturn
    \/ PassCancel

SpecPass == InitPass /\ [][NextPass]_vars

\* The content rule on its own, over the sets of ContentTrees.
InitContent ==
    /\ fs \in ContentTrees
    /\ maxWorkers = 1
    /\ arg = <<>>
    /\ result = <<[issues |-> <<>>, stats |-> ZeroStats]>>
    /\ ScanIdle
    /\ MainIdle

NextContent == ContentStep

SpecContent == InitContent /\ [][NextContent]_vars

\* The completeness rule on its own, over the lists of FileLists.
InitCompleteness ==
    /\ fs = Tree(CHOOSE m \in Markers : m.exists /\ m.size = 64 /\ m.openOK, TRUE, <<>>, <<>>)
    /\ maxWorkers = 1
    /\ arg \in FileLists
    /\ result = <<>>
    /\ ScanIdle
    /\ MainIdle

NextCompleteness == ApplyCompleteness

SpecCompleteness == InitCompleteness /\ [][NextCompleteness]_vars

\* Every step but the firing of the cancellation signal.
Progress ==
    \/ ScanMarker
    \/ ScanDiscover
    \/ PoolStart
    \/ DispatchSend
    \/ DispatchCancelled
    \/ DispatchClose
    \/ WorkerReceive
    \/ WorkerDrained
    \/ WorkerCancelled
    \/ WorkerFile
    \/ WorkerStore
    \/ PoolReturn

\* The Go scheduler runs every goroutine that can take a step; whether the
\* deadline ever passes is left open.
PoolInit ==
    /\ fs \in PoolTrees
    /\ maxWorkers \in -1..MaxWorkers
    /\ arg = <<>>
    /\ result = <<>>
    /\ ScanIdle
    /\ MainIdle

\* ENABLED <<Progress>>_vars, written out from the guards of the steps.
ProgressEnabled ==
    \/ scanPC = "marker"
    \/ scanPC = "discover"
    \/ scanPC = "validate" /\ schedPC = "Idle"
    \/ dispPC = "feeding"
          /\ (dispI > Len(backupSets) \/ ctxDone \/ Len(work) < Len(backupSets))
    \/ \E w \in DOMAIN workers :
          \/ workers[w].pc = "validate"
          \/ workers[w].pc = "select" /\ (Len(work) > 0 \/ workClosed \/ ctxDone)
    \/ schedPC = "Running" /\ wg = 0

\* Weak fairness of Progress: the Go scheduler runs a goroutine that stays
\* runnable.  The signal (Cancel) is under no obligation to fire.
Fairness == []<>(~ProgressEnabled) \/ []<><<Progress>>_vars

FairSpec == PoolInit /\ [][Next]_vars /\ Fairness

(***************************************************************************)
(* Properties.                                                             *)
(***************************************************************************)

\* The report of descriptor i validated alone, to the end.
CompleteReport(i) ==
    validateFileBackupSet(fs, backupSets[i], ContentTotal(backupSets[i]), Now)

\* The reports descriptor i can get from a validation that a cancellation check
\* may have cut short.
PartialReports(i) ==
    {validateFileBackupSet(fs, backupSets[i], k, Now) : k \in 0..ContentTotal(backupSets[i])}

\* validateBackupSets has returned.
PoolDone == schedPC = "Done"

\* C1: validateBackupSets returns one slot per descriptor, and when the
\* cancellation signal has not fired slot i holds the complete report of
\* descriptor i, whatever the worker count and the order of completion.
C1_OneReportPerDescriptorInOrder ==
    PoolDone =>
        /\ Len(reports) = Len(backupSets)
        /\ ~ctxDone => \A i \in 1..Len(backupSets) : reports[i] = CompleteReport(i)

\* C1 witness: two workers finished two different sets in the reverse of the
\* descriptor order, and no cancellation fired.
C1_Witness ==
    /\ PoolDone
    /\ ~ctxDone
    /\ Len(workers) = 2
    /\ Len(backupSets) = 2
    /\ stored = <<[idx |-> 2, k |-> ContentTotal(backupSets[2])],
                 [idx |-> 1, k |-> ContentTotal(backupSets[1])]>>
    /\ reports[1] # reports[2]

\* C3: validateBackupSets always returns: the scan reaches its end, with every
\* worker gone, whether or not the cancellation signal fires.
C3_PoolTerminates ==
    <>(scanPC = "returned" /\ \A w \in DOMAIN workers : workers[w].pc = "exited")

\* C3 witness: the pool has returned from a cancelled run over two sets of which
\* one was never received.
C3_Witness ==
    /\ PoolDone
    /\ ctxDone
    /\ Len(backupSets) = 2
    /\ Len(stored) = 1
    /\ \A w \in DOMAIN workers : workers[w].pc = "exited"

\* C5: called with a worker count of 0 or less, validateBackupSets does what it
\* does with a worker count of 1: it starts exactly one worker and, without
\* cancellation, returns the complete reports in descriptor order.
C5_NoWorkerCountMeansOne ==
    (maxWorkers <= 1 /\ schedPC # "Idle") =>
        /\ Len(workers) = 1
        /\ (PoolDone /\ ~ctxDone) =>
              reports = [i \in 1..Len(backupSets) |-> CompleteReport(i)]

\* C5 witness: a run with worker count 0 over two sets has returned uncancelled.
C5_Witness ==
    /\ maxWorkers = 0
    /\ PoolDone
    /\ ~ctxDone
    /\ Len(backupSets) = 2
    /\ Len(workers) = 1
    /\ reports[1] # reports[2]

\* Some issue of the list has severity Error or Critical.
HasErrorIssue(issues) ==
    \E i \in 1..Len(issues) : issues[i].Severity \in {SeverityError, SeverityCritical}

\* C2: in every report of a returned ScanReport (per-set reports, root-level
\* marker reports and slots a cancelled scan left unfilled), Valid is true if
\* and only if no issue has severity Error or Critical.
C2_ValidIffNoErrorIssue ==
    scanPC = "returned" =>
        \A j \in 1..Len(scanReport) :
            scanReport[j].Valid <=> ~HasErrorIssue(scanReport[j].Issues)

\* The history entries of descriptor i: the reports stored for it.
StoredFor(i) == {e \in {stored[j] : j \in 1..Len(stored)} : e.idx = i}

\* Descriptor i went through its whole validation.
FullyValidated(i) == \E e \in StoredFor(i) : e.k = ContentTotal(backupSets[i])

C6_MissingMarkerStopsScan ==
    ~fileExists(fs) =>
        /\ scanPC \in {"marker", "returned"}
        /\ schedPC = "Idle"
        /\ backupSets = <<>>
        /\ scanPC = "returned" =>
              /\ ~scanErr
              /\ Len(scanReport) = 1
              /\ scanReport[1].BackupDir = Root
              /\ ~scanReport[1].Valid
              /\ Len(scanReport[1].Issues) = 1
              /\ scanReport[1].Issues[1].Severity = SeverityCritical

\* C6 witness: a scan of a root without marker has returned, though the root
\* holds sets that discovery would have found.
C6_Witness ==
    /\ scanPC = "returned"
    /\ ~fs.marker.exists
    /\ Len(discoverBackupSets(fs).sets) = 2

\* MediaID.bin exists and fails validateMediaID.
MarkerInvalid == fileExists(fs) /\ validateMediaID(fs.marker).err

\* A root-level report: invalid, with exactly one issue, of severity Error.
RootLevelError(r) ==
    /\ r.BackupDir = Root
    /\ ~r.Valid
    /\ Len(r.Issues) = 1
    /\ r.Issues[1].Severity = SeverityError

\* The complete report of a descriptor.
CompleteReportOf(setInfo) == validateFileBackupSet(fs, setInfo, ContentTotal(setInfo), Now)

\* C7 as stated: with an invalid MediaID.bin the scan returns the root-level
\* report first and then the complete report of every set discovery finds, in
\* the order discovery returns them.
C7_InvalidMarkerValidatesEverySet ==
    (scanPC = "returned" /\ MarkerInvalid) =>
        LET found == discoverBackupSets(fs).sets
        IN  /\ ~scanErr
            /\ Len(scanReport) = 1 + Len(found)
            /\ RootLevelError(scanReport[1])
            /\ \A i \in 1..Len(found) : scanReport[1 + i] = CompleteReportOf(found[i])

\* C7 amended: with an invalid MediaID.bin the scan goes on to discovery.  When
\* the root cannot be listed it returns the error and no report.  Otherwise it
\* returns the root-level report first, then one slot per discovered set in the
\* order discovery returns them; without the signal every slot holds the
\* complete report of its set, after the signal a slot holds the zero-valued
\* report or the report of a validation that may have been cut short.
C7_InvalidMarkerGoesOn ==
    (scanPC = "returned" /\ MarkerInvalid) =>
        IF ~fs.rootReadable
        THEN scanErr /\ scanReport = <<>>
        ELSE /\ ~scanErr
             /\ backupSets = discoverBackupSets(fs).sets
             /\ Len(scanReport) = 1 + Len(backupSets)
             /\ RootLevelError(scanReport[1])
             /\ \A i \in 1..Len(backupSets) :
                   /\ ~ctxDone => scanReport[1 + i] = CompleteReport(i)
                   /\ scanReport[1 + i] \in {ZeroReport} \cup PartialReports(i)

\* C7 witness: a scan over an empty MediaID.bin and two different sets returned
\* uncancelled with three reports.
C7_Witness ==
    /\ scanPC = "returned"
    /\ fs.marker.exists
    /\ fs.marker.size = 0
    /\ ~ctxDone
    /\ Len(scanReport) = 3
    /\ scanReport[2] # scanReport[3]

\* The sets in discovery order: as the loops of discoverBackupSets meet them.
DiscoveryOrder == DiscoverMachines(fs.machines, 1)

\* Rank of a descriptor in the list d.
Rank(d, setInfo) == CHOOSE r \in 1..Len(d) : d[r].Path = setInfo.Path

\* C8: discoverBackupSets returns the descriptors by descending modification
\* time, and descriptors with equal modification time in discovery order.
C8_SortedNewestFirstAndStable ==
    scanPC = "validate" =>
        LET d == DiscoveryOrder
            rank == [i \in 1..Len(backupSets) |-> Rank(d, backupSets[i])]
        IN  /\ Len(backupSets) = Len(d)
            /\ \A i, j \in 1..Len(backupSets) :
                  i < j =>
                     /\ backupSets[i].ModTime >= backupSets[j].ModTime
                     /\ backupSets[i].ModTime = backupSets[j].ModTime => rank[i] < rank[j]

\* The indices carried by the names of arg that fit a pattern.
IndexSet == {arg[i].index : i \in {j \in 1..Len(arg) : arg[j].matches}}

SetMin(S) == CHOOSE x \in S : \A y \in S : x <= y

SetMax(S) == CHOOSE x \in S : \A y \in S : x >= y

\* The elements of a set of integers in ascending order.
RECURSIVE Ascending(_)
Ascending(S) == IF S = {} THEN <<>> ELSE <<SetMin(S)>> \o Ascending(S \ {SetMin(S)})

\* The indices between the smallest and the largest of M that M lacks.
Gaps(M) == IF M = {} THEN {} ELSE {i \in SetMin(M)..SetMax(M) : i \notin M}

\* The text of the Warning for a list of missing names.
MissingMessage(names) == "missing backup files in sequence: " \o StringsJoin(names, ", ")

\* C9: the completeness rule emits no issue when no name fits a pattern or no
\* index between the smallest and the largest is absent; otherwise exactly one
\* Warning listing exactly the absent indices, each once, in ascending order.
C9_ReportsExactlyTheGaps ==
    result # <<>> =>
        IF Gaps(IndexSet) = {} THEN result[1] = <<>>
        ELSE /\ Len(result[1]) = 1
             /\ result[1][1].Severity = SeverityWarning
             /\ result[1][1].Message =
                   MissingMessage([k \in 1..Cardinality(Gaps(IndexSet)) |->
                                      MissingName(Ascending(Gaps(IndexSet))[k])])

\* The indices a Warning can list.
IndexRange == -3..5

\* The message lists names of the form prefix N ".zip" and nothing else.
ListsOnly(message, prefix) ==
    \E S \in SUBSET IndexRange :
        message = MissingMessage([k \in 1..Cardinality(S) |->
                                     prefix \o Sprintd(Ascending(S)[k]) \o ".zip"])

\* C10 as stated: every missing index N is rendered "Backup Files N.zip", and
\* for files indexed 1, 3, 4 the single Warning lists "Backup Files 2.zip" only.
C10_RenderedBackupFilesCapital ==
    result # <<>> =>
        /\ \A k \in 1..Len(result[1]) : ListsOnly(result[1][k].Message, "Backup Files ")
        /\ (IndexSet = {1, 3, 4}) =>
              /\ Len(result[1]) = 1
              /\ result[1][1].Severity = SeverityWarning
              /\ result[1][1].Message = MissingMessage(<<"Backup Files 2.zip">>)

\* C10 amended: every missing index N is rendered "Backup files N.zip", and for
\* files indexed 1, 3, 4 the single Warning lists "Backup files 2.zip" only.
C10_RenderedBackupFilesLower ==
    result # <<>> =>
        /\ \A k \in 1..Len(result[1]) : ListsOnly(result[1][k].Message, "Backup files ")
        /\ (IndexSet = {1, 3, 4}) =>
              /\ Len(result[1]) = 1
              /\ result[1][1].Severity = SeverityWarning
              /\ result[1][1].Message = MissingMessage(<<"Backup files 2.zip">>)

\* C10 witness: the rule has run on files indexed 1, 3, 4, one of them named in
\* the parenthesised form, and warned about index 2.
C10_Witness ==
    /\ result # <<>>
    /\ IndexSet = {1, 3, 4}
    /\ \E i \in 1..Len(arg) : arg[i].path = FileName("Backup Files (3).zip", TRUE, 3).path
    /\ Len(result[1]) = 1
    /\ result[1][1].Message = "missing backup files in sequence: Backup files 2.zip"

\* sub occurs in s.
Contains(s, sub) ==
    \E i \in 1..(Len(s) - Len(sub) + 1) : SubSeq(s, i, i + Len(sub) - 1) = sub

\* The file is an archive with no entry, or with one entry of uncompressed size 0.
EmptyArchive(node) ==
    /\ node.openOK
    /\ node.zipOK
    /\ \/ Len(node.entries) = 0
       \/ Len(node.entries) = 1 /\ node.entries[1].size = 0

\* Round k of the content rule flagged its file: exactly one more issue, an
\* Error for that file, one more corrupt file, one more validated file, no more
\* passed content checks.
FlaggedInRound(k) ==
    LET before == result[k]
        after == result[k + 1]
    IN  /\ Len(after.issues) = Len(before.issues) + 1
        /\ SubSeq(after.issues, 1, Len(before.issues)) = before.issues
        /\ after.issues[Len(after.issues)].Severity = SeverityError
        /\ after.issues[Len(after.issues)].Path = ContentFiles(OnlySet)[k].path
        /\ after.stats.CorruptFiles = before.stats.CorruptFiles + 1
        /\ after.stats.ValidatedFiles = before.stats.ValidatedFiles + 1
        /\ after.stats.ContentChecks = before.stats.ContentChecks

\* The rounds of the content rule run so far on an empty archive.
EmptyArchiveRounds ==
    {k \in 1..(Len(result) - 1) :
        /\ ContentFiles(OnlySet)[k].kind = "zip"
        /\ EmptyArchive(NodeAt(fs, ContentFiles(OnlySet)[k].path))}

\* C11 as stated: for every archive with no entry or with one empty entry the
\* content rule emits exactly one Error for the file, whose message contains
\* "empty", counts the file corrupt and validated once, and counts no passed
\* content check.
C11_EmptyArchiveFlaggedEmpty ==
    \A k \in EmptyArchiveRounds :
        /\ FlaggedInRound(k)
        /\ Contains(result[k + 1].issues[Len(result[k + 1].issues)].Message, "empty")

\* C11 amended: the content rule flags every such archive as stated; the message
\* contains "empty" when the archive has no entry or its only entry opens, and
\* reports the failure to open the entry when it does not open.
C11_EmptyArchiveFlagged ==
    \A k \in EmptyArchiveRounds :
        LET node == NodeAt(fs, ContentFiles(OnlySet)[k].path)
            message == result[k + 1].issues[Len(result[k + 1].issues)].Message
        IN  /\ FlaggedInRound(k)
            /\ IF Len(node.entries) = 1 /\ ~node.entries[1].openOK
               THEN Contains(message, "cannot open file") /\ ~Contains(message, "empty")
               ELSE Contains(message, "empty")

\* C11 witness: the content rule has examined an archive with one empty entry
\* after an archive without entries, and flagged both.
C11_Witness ==
    /\ Len(result) >= 3
    /\ EmptyArchiveRounds = {1, 2}
    /\ Len(NodeAt(fs, ContentFiles(OnlySet)[1].path).entries) = 0
    /\ Len(NodeAt(fs, ContentFiles(OnlySet)[2].path).entries) = 1
    /\ NodeAt(fs, ContentFiles(OnlySet)[2].path).entries[1].openOK
    /\ result[3].stats.CorruptFiles = 2

\* The bytes of the files of the only set of fs.
RECURSIVE SumSizes(_, _)
SumSizes(files, k) == IF k > Len(files) THEN 0 ELSE files[k].size + SumSizes(files, k + 1)

ScenarioSize == SumSizes(fs.machines[1].sets[1].files, 1)

\* C12 as stated: the uncancelled scan of the documented sound set returns
\* exactly one report, valid, without issues, with 4 validated files and no
\* corrupt file.
C12_SoundSetHasNoIssue ==
    (scanPC = "returned" /\ ~ctxDone) =>
        /\ ~scanErr
        /\ Len(scanReport) = 1
        /\ scanReport[1].Valid
        /\ scanReport[1].Issues = <<>>
        /\ scanReport[1].ValidationStats.ValidatedFiles = 4
        /\ scanReport[1].ValidationStats.CorruptFiles = 0

\* C12 amended: the uncancelled scan of the documented sound set returns exactly
\* one report, valid, with 4 validated files and no corrupt file; it has no
\* issue when the files of the set total 1024 bytes or more, and exactly one
\* issue, the Warning about a very small set, when they total less.
C12_SoundSetIsValid ==
    (scanPC = "returned" /\ ~ctxDone) =>
        /\ ~scanErr
        /\ Len(scanReport) = 1
        /\ scanReport[1].Valid
        /\ scanReport[1].ValidationStats.ValidatedFiles = 4
        /\ scanReport[1].ValidationStats.CorruptFiles = 0
        /\ IF ScenarioSize >= 1024 THEN scanReport[1].Issues = <<>>
           ELSE /\ Len(scanReport[1].Issues) = 1
                /\ scanReport[1].Issues[1].Severity = SeverityWarning
                /\ Contains(scanReport[1].Issues[1].Message, "very small")

\* C12 witness: two workers were started, no signal fired, and the scan of a
\* sound set of more than 1024 bytes returned a report without issues.
C12_Witness ==
    /\ scanPC = "returned"
    /\ ~ctxDone
    /\ maxWorkers = 2
    /\ ScenarioSize >= 1024
    /\ Len(scanReport) = 1
    /\ scanReport[1].Issues = <<>>
    /\ scanReport[1].ValidationStats.ValidatedFiles = 4

\* The issue expected of a structure check: none when the check passes.
Expect(fails, severity, text) ==
    IF fails THEN <<[Severity |-> severity, text |-> text]>> ELSE <<>>

\* What the five structure checks are to emit for the only set of fs, each on
\* its own, in order.
ExpectedStructure ==
    LET hasDir == "Catalogs" \in fs.machines[1].sets[1].dirs
    IN  Expect(~hasDir, SeverityError, "missing Catalogs folder")
        \o Expect(hasDir /\ Len(OnlySet.CatalogFiles) = 0, SeverityError,
                  "no catalog files found")
        \o Expect(Len(OnlySet.BackupFiles) = 0, SeverityError, "no backup files")
        \o Expect(OnlySet.FileCount < 2, SeverityWarning, "backup set contains only")
        \o Expect(OnlySet.Size < 1024, SeverityWarning, "backup set is very small")

\* C13: the structure rule emits, each on its own and in this order, an Error
\* for a missing Catalogs folder, an Error for a Catalogs folder without
\* catalog, an Error for no backup-data file, a Warning for fewer than 2 files
\* and a Warning for fewer than 1024 bytes; every issue carries a suggestion.
C13_StructureChecksIndependent ==
    result # <<>> =>
        /\ Len(result[1]) = Len(ExpectedStructure)
        /\ \A i \in 1..Len(result[1]) :
              /\ result[1][i].Severity = ExpectedStructure[i].Severity
              /\ Contains(result[1][i].Message, ExpectedStructure[i].text)
              /\ result[1][i].Suggestion # ""

\* C13 witness: the rule has run on a set without Catalogs folder, without
\* backup-data file, with one small file, and emitted four issues.
C13_Witness ==
    /\ result # <<>>
    /\ "Catalogs" \notin fs.machines[1].sets[1].dirs
    /\ OnlySet.FileCount = 1
    /\ Len(result[1]) = 4
    /\ result[1][2].Severity = SeverityError
    /\ result[1][4].Severity = SeverityWarning

C16_UnreadableMachineDirIsFatal ==
    (/\ scanPC \in {"validate", "returned"}
     /\ fileExists(fs)
     /\ fs.rootReadable
     /\ \E m \in 1..Len(fs.machines) : fs.machines[m].isDir /\ ~fs.machines[m].readable)
        => scanErr

\* The indices the workers hold: received, their report not yet stored.
InFlight ==
    LET RECURSIVE Held(_)
        Held(w) == IF w > Len(workers) THEN <<>>
                   ELSE (IF workers[w].pc = "validate" THEN <<workers[w].idx>> ELSE <<>>)
                        \o Held(w + 1)
    IN  Held(1)

\* The indices whose report has been written, in the order of the writes.
Written == [j \in 1..Len(stored) |-> stored[j].idx]

NoRepeat(seq) == \A i, j \in 1..Len(seq) : i < j => seq[i] # seq[j]

\* C18: every index the dispatcher has enqueued is in exactly one place: in the
\* queue, with one worker, or written once to its slot; so no index is enqueued
\* or received twice and no slot is written twice or by two workers.
C18_EachIndexHandledOnce ==
    schedPC # "Idle" =>
        LET all == work \o InFlight \o Written
        IN  /\ NoRepeat(all)
            /\ {all[i] : i \in 1..Len(all)} = 1..(dispI - 1)
            /\ \A i \in 1..Len(backupSets) :
                  (\A j \in 1..Len(Written) : Written[j] # i) => reports[i] = ZeroReport

\* C18 witness: two workers hold two different indices at the same time.
C18_Witness ==
    /\ Len(workers) = 2
    /\ workers[1].pc = "validate"
    /\ workers[2].pc = "validate"
    /\ workers[1].idx # workers[2].idx

\* C19: once the signal has fired the dispatcher enqueues no index and no worker
\* receives one.
C19_NoWorkAfterSignal ==
    [][ctxDone =>
          /\ dispI' = dispI
          /\ \A w \in (DOMAIN workers) \cap (DOMAIN workers') :
                workers'[w].pc = "validate" => workers[w].pc = "validate"]_vars

\* The queue is within its capacity, a send finds room, and the queue is closed
\* exactly when the dispatcher has gone.
QueueSound ==
    schedPC # "Idle" =>
        /\ Len(work) <= Len(backupSets)
        /\ (dispPC = "feeding" /\ dispI <= Len(backupSets)) => Len(work) < Len(backupSets)
        /\ workClosed <=> dispPC = "exited"

\* C20: every send finds room in the queue; the dispatcher closes the queue
\* once, on leaving, after which nothing is sent or closed; and the dispatcher
\* always leaves, whatever the workers do.
C20_DispatcherNeverBlocks ==
    /\ []QueueSound
    /\ [][workClosed =>
             /\ workClosed'
             /\ dispPC' = "exited"
             /\ dispI' = dispI
             /\ Len(work') <= Len(work)]_vars
    /\ (dispPC = "feeding" ~> dispPC = "exited")

\* C20 witness: the scan has returned from a cancelled run in which no worker
\* received an index; the dispatcher sent both indices and closed the queue.
C20_Witness ==
    /\ scanPC = "returned"
    /\ ctxDone
    /\ dispPC = "exited"
    /\ workClosed
    /\ Len(backupSets) = 2
    /\ work = <<1, 2>>

\* The scan of tree returns an error: it gets past the marker and discovery fails.
ScanFails(tree) == MarkerOutcome(tree).goOn /\ discoverBackupSets(tree).err

SomeScanFailed == \E i \in 1..Len(paths) : ScanFails(paths[i])

SomeReportInvalid ==
    \E i \in 1..Len(allReports) :
        \E j \in 1..Len(allReports[i].Reports) : ~allReports[i].Reports[j].Valid

\* The exit code the reports call for.
ReportsCode == IF SomeScanFailed THEN 2 ELSE IF SomeReportInvalid THEN 1 ELSE 0

\* C15 as stated: whenever the process has exited, its exit code is 2 if a
\* root-level scan returned an error, otherwise 1 if some report is invalid,
\* otherwise 0.
C15_ExitCodeFromReportsAlways ==
    mainPC \in {"exited", "aborted"} => exitCode = <<ReportsCode>>

\* C15: when the process exits after the run report was marshalled and written,
\* its exit code is 2 if a root-level scan returned an error, otherwise 1 if
\* some report is invalid, otherwise 0; when it exits because the configuration
\* could not be loaded or the run report could not be written, its exit code is
\* 2; and exit code 0 is returned only when every report is valid.
C15_ExitCodeFromReports ==
    /\ mainPC = "exited" => exitCode = <<ReportsCode>>
    /\ mainPC = "aborted" => exitCode = <<2>>
    /\ mainPC \in {"load", "scan"} => exitCode = <<>>
    /\ exitCode = <<0>> => ~SomeReportInvalid /\ ~SomeScanFailed

\* C15 witness: two paths were scanned, one scan returned an error, the other
\* returned an invalid report of a set, and the process exited with 2.
C15_Witness ==
    /\ mainPC = "exited"
    /\ exitCode = <<2>>
    /\ Len(allReports) = 2
    /\ Len(fatalErrors) = 1
    /\ \E i \in 1..2 : /\ ~ScanFails(paths[i])
                        /\ \E j \in 1..Len(allReports[i].Reports) :
                              ~allReports[i].Reports[j].Valid

\* Some report holds an issue of severity Warning, Error or Critical.
SomeReportFlagged ==
    \E i \in 1..Len(allReports) :
        \E j \in 1..Len(allReports[i].Reports) :
            \E k \in 1..Len(allReports[i].Reports[j].Issues) :
                allReports[i].Reports[j].Issues[k].Severity >= SeverityWarning

\* C17: when no scan failed, the process exits with 1 whenever some report
\* holds a Warning, Error or Critical issue, and with 0 only when none does.
C17_WarningsExitOne ==
    (mainPC = "exited" /\ fatalErrors = <<>>) =>
        /\ SomeReportFlagged => exitCode = <<1>>
        /\ exitCode = <<0>> => ~SomeReportFlagged

HasPrefix(s, prefix) == Len(s) >= Len(prefix) /\ SubSeq(s, 1, Len(prefix)) = prefix

\* The validator an issue comes from, told by its message: 1 structural,
\* 2 completeness, 3 content, 4 age.
Phase(issue) ==
    IF \/ issue.Message \in {"missing Catalogs folder",
                             "no catalog files found in Catalogs folder",
                             "no backup files (.zip) found"}
       \/ HasPrefix(issue.Message, "backup set contains only ")
       \/ HasPrefix(issue.Message, "backup set is very small (")
    THEN 1
    ELSE IF HasPrefix(issue.Message, "missing backup files in sequence: ") THEN 2
    ELSE IF \/ HasPrefix(issue.Message, "corrupted backup file: ")
            \/ HasPrefix(issue.Message, "catalog file issue: ")
    THEN 3
    ELSE IF issue.Message \in {"backup is very recent", "backup is quite old"} THEN 4
    ELSE 0

\* The place of a content issue's file: the backup-data files in list order,
\* then the catalog files in list order; 0 for a file of neither list.
FilePlace(setInfo, issue) ==
    LET zips == {k \in 1..Len(setInfo.BackupFiles) :
                    /\ setInfo.BackupFiles[k] = issue.Path
                    /\ HasPrefix(issue.Message, "corrupted backup file: ")}
        cats == {k \in 1..Len(setInfo.CatalogFiles) :
                    /\ setInfo.CatalogFiles[k] = issue.Path
                    /\ HasPrefix(issue.Message, "catalog file issue: ")}
    IN  IF zips # {} THEN CHOOSE k \in zips : TRUE
        ELSE IF cats # {} THEN Len(setInfo.BackupFiles) + (CHOOSE k \in cats : TRUE)
        ELSE 0

\* issues is in the fixed order for setInfo.
InFixedOrder(setInfo, issues) ==
    /\ \A i \in 1..Len(issues) : Phase(issues[i]) \in 1..4
    /\ \A i, j \in 1..Len(issues) : i < j => Phase(issues[i]) <= Phase(issues[j])
    /\ Cardinality({i \in 1..Len(issues) : Phase(issues[i]) = 2}) <= 1
    /\ \A i \in 1..Len(issues) : Phase(issues[i]) = 3 => FilePlace(setInfo, issues[i]) > 0
    /\ \A i, j \in 1..Len(issues) :
          (i < j /\ Phase(issues[i]) = 3 /\ Phase(issues[j]) = 3) =>
              FilePlace(setInfo, issues[i]) < FilePlace(setInfo, issues[j])

IsPrefix(s, t) == Len(s) <= Len(t) /\ SubSeq(t, 1, Len(s)) = s

\* The report a finished pass returns.
PassReport ==
    [BackupDir |-> OnlySet.Path, Valid |-> result[1].valid, Issues |-> result[1].issues,
     ValidationStats |-> result[1].stats]

\* C21: the issues of a per-set report are in the fixed order (structural, the
\* completeness issue, content issues with the backup-data files in list order
\* before the catalog files in list order, age), and during the pass the issue
\* list of validateFileBackupSet and the one of validateBackupContent only grow
\* by appending.
C21_IssuesInFixedOrderAppendOnly ==
    /\ [](PassAt("done") =>
            /\ InFixedOrder(OnlySet, result[1].issues)
            /\ PassReport = validateFileBackupSet(fs, OnlySet, result[1].k, Now))
    /\ [][/\ IsPrefix(result[1].issues, result'[1].issues)
          /\ IsPrefix(result[1].content.issues, result'[1].content.issues)]_vars

\* C21 witness: a finished pass whose report holds an issue of each of the four
\* validators, the content issues of a backup-data file and of a catalog file.
C21_Witness ==
    /\ PassAt("done")
    /\ \A p \in 1..4 : \E i \in 1..Len(result[1].issues) : Phase(result[1].issues[i]) = p
    /\ \E i, j \in 1..Len(result[1].issues) :
          /\ HasPrefix(result[1].issues[i].Message, "corrupted backup file: ")
          /\ HasPrefix(result[1].issues[j].Message, "catalog file issue: ")

\* The Error and Critical issues of the Structural Validator among issues.
StructuralErrors(issues) ==
    {i \in 1..Len(issues) : Phase(issues[i]) = 1 /\ issues[i].Severity >= SeverityError}

\* C22: in a per-set report StructuralChecks is max(0, 5 - k), k the number of
\* Error or Critical issues of the Structural Validator; it is fixed once the
\* structural validation is over, whatever the later validators add.
C22_StructuralChecksFromStructuralErrors ==
    /\ [](PassAt("done") =>
            result[1].stats.StructuralChecks =
                maxInt(0, 5 - Cardinality(StructuralErrors(result[1].issues))))
    /\ [][result[1].pc # "structure" =>
             result'[1].stats.StructuralChecks = result[1].stats.StructuralChecks]_vars

\* C22 witness: a finished pass whose report holds a structural Error, a
\* structural Warning, a Warning of another validator and a content Error.
C22_Witness ==
    /\ PassAt("done")
    /\ result[1].stats.StructuralChecks = 4
    /\ \E i, j, k \in 1..Len(result[1].issues) :
          /\ Phase(result[1].issues[i]) = 1
          /\ result[1].issues[i].Severity = SeverityWarning
          /\ Phase(result[1].issues[j]) = 2
          /\ Phase(result[1].issues[k]) = 3
          /\ result[1].issues[k].Severity = SeverityError

\* C30: in a per-set report StructuralChecks lies between 3 and 5, the
\* Structural Validator emitting at most two Error issues and no Critical one.
C30_StructuralChecksAtLeastThree ==
    PassAt("done") =>
        /\ result[1].stats.StructuralChecks \in 3..5
        /\ Cardinality(StructuralErrors(result[1].issues)) <= 2
        /\ \A i \in StructuralErrors(result[1].issues) :
              result[1].issues[i].Severity = SeverityError

\* C30 witness: the report of a set without Catalogs folder and without
\* backup-data files: two structural Errors, StructuralChecks = 3.
C30_Witness ==
    /\ PassAt("done")
    /\ result[1].stats.StructuralChecks = 3
    /\ Cardinality(StructuralErrors(result[1].issues)) = 2

\* The content issues among issues, in their order.
ContentIssues(issues) == SelectSeq(issues, LAMBDA x : Phase(x) = 3)

\* The files among the first k of the content validation that fail their check.
FailedAmong(setInfo, k) ==
    {j \in 1..k :
        LET f == ContentFiles(setInfo)[j]
        IN  IF f.kind = "zip" THEN validateZipFile(NodeAt(fs, f.path)).err
            ELSE validateCatalogFile(NodeAt(fs, f.path)).err}

\* C23: once the content validation has seen the signal in front of a file it
\* examines no further file; what it returns covers exactly the files examined
\* before (ValidatedFiles is their number, the issues are theirs), and the
\* set's report carries those counts and issues.
C23_PartialContentPreserved ==
    /\ [][(result[1].pc = "content" /\ ctxDone) \/ result[1].pc \in {"age", "final", "done"} =>
             /\ result'[1].k = result[1].k
             /\ result'[1].content = result[1].content]_vars
    /\ [](Len(result) = 1 /\ result[1].pc \in {"age", "final", "done"} =>
            /\ result[1].k < ContentTotal(OnlySet) => ctxDone
            /\ result[1].content.stats.ValidatedFiles = result[1].k
            /\ result[1].content.stats.CorruptFiles =
                  Cardinality(FailedAmong(OnlySet, result[1].k))
            /\ result[1].content.stats.ContentChecks =
                  result[1].k - Cardinality(FailedAmong(OnlySet, result[1].k))
            /\ {FilePlace(OnlySet, result[1].content.issues[i]) :
                    i \in 1..Len(result[1].content.issues)} = FailedAmong(OnlySet, result[1].k)
            /\ result[1].stats.ValidatedFiles = result[1].k
            /\ result[1].stats.CorruptFiles = result[1].content.stats.CorruptFiles
            /\ result[1].stats.ContentChecks = result[1].content.stats.ContentChecks
            /\ ContentIssues(result[1].issues) = result[1].content.issues)

\* C23 witness: a pass cut short between two files has returned a report that
\* counts the one file examined, which failed its check.
C23_Witness ==
    /\ PassAt("done")
    /\ ctxDone
    /\ result[1].k = 1
    /\ ContentTotal(OnlySet) >= 2
    /\ result[1].stats.ValidatedFiles = 1
    /\ result[1].stats.CorruptFiles = 1
    /\ Len(ContentIssues(result[1].issues)) = 1

\* The issues of a report that name path.
IssuesNaming(issues, path) == {i \in 1..Len(issues) : issues[i].Path = path}

\* C24: in a per-set report, every backup-data file examined that cannot be
\* opened or sampled has exactly one issue naming it, an Error, and the report
\* is invalid; every catalog file examined that is empty or unreadable has
\* exactly one issue naming it, a Warning; a sound file has none; and without a
\* failed backup-data file or a structural Error the report is valid, whatever
\* the catalogs.
C24_FailedFilesRecordedOnce ==
    PassAt("done") =>
        LET issues == result[1].issues
            files == ContentFiles(OnlySet)
            failed == FailedAmong(OnlySet, result[1].k)
        IN  /\ \A j \in 1..Len(files) :
                  IF j \in failed
                  THEN /\ Cardinality(IssuesNaming(issues, files[j].path)) = 1
                       /\ \A i \in IssuesNaming(issues, files[j].path) :
                             IF files[j].kind = "zip"
                             THEN /\ issues[i].Severity = SeverityError
                                  /\ HasPrefix(issues[i].Message, "corrupted backup file: ")
                                  /\ ~result[1].valid
                             ELSE /\ issues[i].Severity = SeverityWarning
                                  /\ HasPrefix(issues[i].Message, "catalog file issue: ")
                  ELSE IssuesNaming(issues, files[j].path) = {}
            /\ (StructuralErrors(issues) = {} /\ \A j \in failed : files[j].kind = "catalog")
                  => result[1].valid
            /\ result[1].stats.ValidatedFiles = result[1].k
            /\ result[1].stats.CorruptFiles = Cardinality(failed)

\* C24 witness: a finished pass over a set with a damaged archive and an empty
\* catalog: one Error and one Warning, each naming its file.
C24_Witness ==
    /\ PassAt("done")
    /\ result[1].k = ContentTotal(OnlySet)
    /\ \E a, c \in FailedAmong(OnlySet, result[1].k) :
          /\ ContentFiles(OnlySet)[a].kind = "zip"
          /\ ContentFiles(OnlySet)[c].kind = "catalog"
          /\ Cardinality(IssuesNaming(result[1].issues, ContentFiles(OnlySet)[a].path)) = 1
          /\ Cardinality(IssuesNaming(result[1].issues, ContentFiles(OnlySet)[c].path)) = 1
    /\ ~result[1].valid

\* C29 as stated: a per-set report that counts a corrupt file is invalid.
C29_CorruptMeansInvalid ==
    PassAt("done") => (result[1].stats.CorruptFiles > 0 => ~result[1].valid)

\* The failed catalog files among the first k files of the content validation.
FailedCatalogs(setInfo, k) ==
    {j \in FailedAmong(setInfo, k) : ContentFiles(setInfo)[j].kind = "catalog"}

\* C29 amended: a per-set report whose CorruptFiles counts a backup-data file is
\* invalid; CorruptFiles also counts the failed catalog files, which are
\* reported as Warnings, so a valid report with CorruptFiles > 0 counts catalog
\* files only.
C29_CorruptArchiveMeansInvalid ==
    PassAt("done") =>
        /\ result[1].stats.CorruptFiles > Cardinality(FailedCatalogs(OnlySet, result[1].k))
              => ~result[1].valid
        /\ (result[1].valid /\ result[1].stats.CorruptFiles > 0) =>
              /\ result[1].stats.CorruptFiles =
                    Cardinality(FailedCatalogs(OnlySet, result[1].k))
              /\ \A i \in 1..Len(result[1].issues) :
                    Phase(result[1].issues[i]) = 3 =>
                        result[1].issues[i].Severity = SeverityWarning

\* C29 witness: a valid report that counts a corrupt file, an empty catalog
\* beside sound archives.
C29_Witness ==
    /\ PassAt("done")
    /\ result[1].valid
    /\ result[1].stats.CorruptFiles = 1
    /\ result[1].stats.ContentChecks >= 1

\* The counters of a report agree.
CountersAgree(r) ==
    /\ r.ValidationStats.ValidatedFiles =
          r.ValidationStats.ContentChecks + r.ValidationStats.CorruptFiles
    /\ r.ValidationStats.ValidatedFiles <=
          r.ValidationStats.BackupFiles + r.ValidationStats.CatalogFiles

\* C27: in every report of the scan, in the results array at any time and in
\* the returned ScanReport (complete, partial after cancellation, zero-valued or
\* root-level), ValidatedFiles = ContentChecks + CorruptFiles and
\* ValidatedFiles <= BackupFiles + CatalogFiles.
C27_CountersAgree ==
    /\ \A i \in 1..Len(reports) : CountersAgree(reports[i])
    /\ \A j \in 1..Len(scanReport) : CountersAgree(scanReport[j])

\* C27 witness: a cancelled scan has returned a zero-valued slot and a partial
\* report that counts a corrupt file and fewer files than the set holds.
C27_Witness ==
    /\ scanPC = "returned"
    /\ ctxDone
    /\ \E i, j \in 1..Len(reports) :
          /\ reports[i] = ZeroReport
          /\ reports[j].ValidationStats.CorruptFiles > 0
          /\ reports[j].ValidationStats.ValidatedFiles <
                reports[j].ValidationStats.BackupFiles + reports[j].ValidationStats.CatalogFiles

\* C26: in every report validateBackupSets returns, Valid = true implies that
\* ValidatedFiles is the number of backup-data files plus the number of catalog
\* files of that set.
C26_ValidMeansFullyExamined ==
    PoolDone =>
        \A i \in 1..Len(backupSets) :
            reports[i].Valid =>
                reports[i].ValidationStats.ValidatedFiles = ContentTotal(backupSets[i])

\* C28: once validateBackupSets has returned every worker it started has
\* exited, the returned array is what the ScanReport got, and no slot of the
\* array is written again.
C28_NoWriteAfterReturn ==
    /\ [](PoolDone =>
            /\ wg = 0
            /\ \A w \in DOMAIN workers : workers[w].pc = "exited"
            /\ Len(workers) = EffectiveWorkers(maxWorkers)
            /\ Len(scanReport) >= Len(reports)
            /\ SubSeq(scanReport, Len(scanReport) - Len(reports) + 1, Len(scanReport)) = reports)
    /\ [][PoolDone => (reports' = reports /\ stored' = stored /\ workers' = workers)]_vars

\* C28 witness: validateBackupSets has returned after two workers stored a
\* report each.
C28_Witness ==
    /\ PoolDone
    /\ Len(workers) = 2
    /\ Len(stored) = 2
    /\ stored[1].idx # stored[2].idx

\* The reports collected, as places <<scan, report>>.
ReportPlaces ==
    {<<i, j>> \in (1..Len(allReports)) \X (1..MaxSets + 1) : j <= Len(allReports[i].Reports)}

FailedPaths == {i \in 1..Len(paths) : ScanFails(paths[i])}

\* C25: when the loop over the configured roots is over, every root has its
\* ScanReport; the one of a root whose scan returned an error holds exactly one
\* report, invalid, with exactly one issue, Critical; the summary counts one
\* failed scan per such root and counts the synthetic reports in its total and
\* invalid counts; and the process exit code is 2 when a scan failed.
C25_FailedScanReported ==
    summary # <<>> =>
        /\ Len(allReports) = Len(paths)
        /\ \A i \in 1..Len(paths) :
              /\ allReports[i].Root = Root
              /\ IF i \in FailedPaths
                 THEN /\ Len(allReports[i].Reports) = 1
                      /\ ~allReports[i].Reports[1].Valid
                      /\ Len(allReports[i].Reports[1].Issues) = 1
                      /\ allReports[i].Reports[1].Issues[1].Severity = SeverityCritical
                 ELSE ctxDone \/ allReports[i].Reports =
                         IF MarkerOutcome(paths[i]).goOn
                         THEN MarkerOutcome(paths[i]).reports
                              \o [k \in 1..Len(discoverBackupSets(paths[i]).sets) |->
                                    validateFileBackupSet(paths[i],
                                        discoverBackupSets(paths[i]).sets[k],
                                        ContentTotal(discoverBackupSets(paths[i]).sets[k]), Now)]
                         ELSE MarkerOutcome(paths[i]).reports
        /\ Len(fatalErrors) = Cardinality(FailedPaths)
        /\ summary[1].FailedScans = Cardinality(FailedPaths)
        /\ summary[1].TotalBackups = Cardinality(ReportPlaces)
        /\ summary[1].InvalidBackups =
              Cardinality({p \in ReportPlaces : ~allReports[p[1]].Reports[p[2]].Valid})
        /\ summary[1].ValidBackups + summary[1].InvalidBackups = summary[1].TotalBackups
        /\ summary[1].InvalidBackups >= summary[1].FailedScans
        /\ FailedPaths # {} => exitCode = <<2>>

\* C25 witness: the first of two roots failed to scan, the second was scanned
\* and gave a valid report of its set; the process exited with 2.
C25_Witness ==
    /\ mainPC = "exited"
    /\ exitCode = <<2>>
    /\ Len(paths) = 2
    /\ FailedPaths = {1}
    /\ summary = <<[TotalBackups |-> 2, ValidBackups |-> 1, InvalidBackups |-> 1,
                    FailedScans |-> 1]>>

====
